---- MODULE Spec2Model ----
(***************************************************************************)
(* Conversion orchestration of ianktoo/image-converter:                    *)
(*   backend/app/conversion/service.py  ConversionService                  *)
(*   backend/app/conversion/models.py   ConversionTask, TaskStatus         *)
(*   backend/app/batch.py               BatchJob, _batches, set_batch_*    *)
(*   backend/app/db.py                  save_batch, update_batch_status    *)
(*   backend/app/api/routes.py          upload_batch, _run_batch_and_zip   *)
(*                                                                         *)
(* A "call" is one request: either upload_batch (which creates a BatchJob  *)
(* and runs _run_batch_and_zip in a thread) or a direct call of            *)
(* ConversionService.convert_many (as upload_multiple does), optionally    *)
(* with an on_progress callback, or a direct call of                       *)
(* ConversionService.convert on one path.  A "job" is one                  *)
(* ConversionService.convert invocation (on a pool worker, or in the       *)
(* caller's thread for a direct call).  Every statement that   *)
(* writes a field another thread can read (a task field read by get_task,  *)
(* a BatchJob field read by get_batch) is a step of its own; the program   *)
(* positions are named after the source line about to execute.             *)
(***************************************************************************)
EXTENDS Integers, Sequences, FiniteSets, TLC

\* ---------------------------------------------------------------- bounds
NumCalls == 1
MaxFiles == 2
MaxFormats == 2
\* size labels in one request (SizeSpec)
MaxLabels == 2
\* convert calls submitted to the executor, and upload_file requests (PoolSpec)
MaxSubmits == 3
MaxUploads == 2

\* ------------------------------------------------------ program constants
\* config.py:50 (MAX_WORKERS, environment-configurable pool size)
MAX_WORKERS == 2
\* config.py:79
MAX_VIDEOS_PER_UPLOAD == 1
\* config.py:75
MAX_IMAGES_PER_UPLOAD == 10

\* config.py:24-25
IMAGE_EXTENSIONS == {".jpg", ".jpeg", ".png", ".gif", ".bmp", ".tiff", ".webp", ".avif"}
VIDEO_EXTENSIONS == {".mp4", ".webm", ".mov", ".avi", ".mkv", ".m4v"}
\* config.py:31-32
IMAGE_OUTPUT_FORMATS == {"webp", "jpeg", "png", "avif"}
VIDEO_OUTPUT_FORMATS == {"webp", "mp4", "webm"}
\* routes.py:49
ALL_EXTENSIONS == IMAGE_EXTENSIONS \cup VIDEO_EXTENSIONS

\* The file extensions and requested output formats the requests are drawn
\* from: an image, a video and an unsupported extension; a format both
\* media kinds support, one only images support, one only videos support.
Extensions == {".png", ".mp4", ".txt"}
FormatNames == {"webp", "png", "mp4"}

\* Python's None, for the optional string fields
None == "None"
\* no future in hand
NoJob == <<>>
\* str(e) of the FileNotFoundError that Path.stat() raises (service.py:204, 273)
StatError == "No such file or directory: out_path"

\* A dict: a function whose domain is the set of keys present.
EmptyDict == [k \in {} |-> None]
Put(d, k, v) == [x \in DOMAIN d \cup {k} |-> IF x = k THEN v ELSE d[x]]

Calls == 1..NumCalls
Jobs == Calls \X (1..MaxFiles)
TaskIds == Calls \X (1..MaxFiles) \X {"conv", "synth"}

SeqsUpTo(S, n) == UNION {[1..m -> S] : m \in 1..n}

\* ------------------------------------------------------------- the state
VARIABLES
    cpc,        \* position of each call (request handler / batch thread)
    req,        \* the request of each call that has arrived
    result,     \* convert_many's local list `tasks` (task ids, in collection order)
    cjob,       \* the future convert_many's as_completed loop is handling
    cexc,       \* the exception _run_batch_and_zip's except clause caught (str(e))
    batches,    \* batch._batches: batch id -> BatchJob
    dbrow,      \* the row of table `batches` for each batch id
    archive,    \* BATCH_ZIP_DIR: zip name -> the files written into that archive
    zipcalls,   \* how often create_zip_from_task_outputs was invoked for the batch
    srcfiles,   \* the uploaded source files present in UPLOAD_DIR
    outfiles,   \* the output files present in OUTPUT_DIR
    unlinkerr,  \* the source files whose unlink raised OSError
    tasks,      \* ConversionService._tasks: task id -> ConversionTask
    jpc,        \* position of each job (one convert() run on a pool worker)
    jk,         \* the job's loop index into out_formats
    jstep,      \* _convert_image's local `step`
    jexc,       \* the exception the job's except clauses caught (str(e))
    \* -- image conversions with size presets (SizeSpec)
    szreq,      \* the call: size labels, output formats, source stems
    sztask,     \* file index -> the ConversionTask convert created for it
    szpc,       \* file index -> position of its convert call
    szparsed,   \* file index -> convert's parsed_sizes
    szpos,      \* file index -> <<index into size_presets, index into out_formats>>
    szstep,     \* file index -> _convert_image's local `step`
    szwrites,   \* the saves done: <<file index, output path>>
    \* -- the worker pool and the event loop (PoolSpec)
    pool,       \* submitted convert call -> unsubmitted / queued / converting / over
    loop,       \* what the event-loop thread is doing in upload_file
    uploads,    \* how many upload_file requests have been handled
    \* -- polling (PollSpec)
    poll,       \* the outcome of the last get_task / get_batch call
    \* -- create_zip_from_task_outputs (ZipSpec)
    zcall,      \* the arguments of the call
    zpos,       \* <<index into task_id_to_paths, index into that task's paths>>
    zmembers,   \* the zf.write calls done: task index, path, arcname
    \* -- the encoder quality of two image conversions (QualitySpec)
    qcall,      \* the two requests: web_optimized, size_reduction_percent
    quality,    \* request index -> _convert_image's local `quality`
    \* -- resize_to_fit (ResizeSpec)
    rcall,      \* the arguments: source size, target size, fill_mode
    rbox,       \* the size of `resized` and the crop box
    \* -- hex_to_rgb (HexSpec)
    hcall,      \* the argument hex_color
    hrgb        \* what the call returned, or that it raised

callVars == <<cpc, req, result, cjob, cexc>>
batchVars == <<batches, dbrow, archive, zipcalls>>
fsVars == <<srcfiles, outfiles, unlinkerr>>
jobVars == <<jpc, jk, jstep, jexc>>
sizeVars == <<szreq, sztask, szpc, szparsed, szpos, szstep, szwrites>>
poolVars == <<pool, loop, uploads>>
\* what the steps of a request, a batch thread or a pool job leave alone
fnVars == <<zcall, zpos, zmembers, qcall, quality, rcall, rbox, hcall, hrgb>>
auxVars == <<sizeVars, poolVars, poll, fnVars>>
vars == <<cpc, req, result, cjob, cexc, batches, dbrow, archive, zipcalls,
          srcfiles, outfiles, unlinkerr, tasks, jpc, jk, jstep, jexc,
          szreq, sztask, szpc, szparsed, szpos, szstep, szwrites,
          pool, loop, uploads, poll,
          zcall, zpos, zmembers, qcall, quality, rcall, rbox, hcall, hrgb>>

\* ------------------------------------------------------------ requests
\* a classification that takes every extension that is not a video's for an
\* image's
get_media_type_ImageByDefault(ext) ==
    IF ext \in VIDEO_EXTENSIONS THEN "video" ELSE "image"

\* service.py:41-47
get_media_type(ext) ==
    IF ext \in IMAGE_EXTENSIONS THEN "image"
    ELSE IF ext \in VIDEO_EXTENSIONS THEN "video"
    ELSE None

\* routes.py:52-53
is_image_ext(ext) == ext \in IMAGE_EXTENSIONS

\* routes.py:578-592, 621-622: the files upload_batch accepts and stores.
\* Files with an extension outside ALL_EXTENSIONS are dropped before the
\* batch exists, so a stored list holds supported files only; one video at
\* most, and then nothing else.
UploadAccepted(files) ==
    /\ \A i \in 1..Len(files) : files[i] \in ALL_EXTENSIONS
    /\ IF \E i \in 1..Len(files) : ~is_image_ext(files[i])
       THEN Len(files) <= MAX_VIDEOS_PER_UPLOAD
       ELSE Len(files) <= MAX_IMAGES_PER_UPLOAD

FileLists == SeqsUpTo(Extensions, MaxFiles)
FormatLists == SeqsUpTo(FormatNames, MaxFormats)

\* upload_batch passes no on_progress (routes.py:499-511).
BatchRequests ==
    {[batch |-> TRUE, single |-> FALSE, cb |-> FALSE, files |-> f, fmts |-> o] :
        f \in {g \in FileLists : UploadAccepted(g)}, o \in FormatLists}

\* convert_many called directly (service.py:337-351), with or without an
\* on_progress callback, on any list of paths.
DirectRequests ==
    {[batch |-> FALSE, single |-> FALSE, cb |-> b, files |-> f, fmts |-> o] :
        b \in BOOLEAN, f \in FileLists, o \in FormatLists}

\* convert called directly on one path of any extension (service.py:290-304),
\* with or without an on_progress callback.
SingleRequests ==
    {[batch |-> FALSE, single |-> TRUE, cb |-> b, files |-> <<e>>, fmts |-> o] :
        b \in BOOLEAN, e \in Extensions, o \in FormatLists}

\* ------------------------------------------------------------- helpers
CallOf(j) == j[1]
Ext(j) == req[j[1]].files[j[2]]
Fmts(j) == req[j[1]].fmts
HasCb(j) == req[j[1]].cb
Tid(j) == <<j[1], j[2], "conv">>
SynthTid(j) == <<j[1], j[2], "synth">>
JobOfTask(t) == <<t[1], t[2]>>

\* service.py:353-356: valid_paths
ValidJobs(c) ==
    {j \in Jobs : /\ j[1] = c
                  /\ j[2] \in 1..Len(req[c].files)
                  /\ get_media_type(req[c].files[j[2]]) # None}

\* models.py:27-37: ConversionTask.__init__
NewTask ==
    [status |-> "pending", progress |-> 0, error |-> None,
     output_paths |-> <<>>, output_formats |-> <<>>, output_sizes |-> <<>>]

\* batch.py:14-20, 45: BatchJob(batch_id, "processing", task_ids)
NewBatch ==
    [status |-> "processing", task_ids |-> <<>>, error |-> None, zip_filename |-> None]

\* service.py:180 (image, one size preset "original") and service.py:233 (video):
\* OUTPUT_DIR / f"{src.stem}_{task.task_id[:8]}_{suffix}.{fmt}"
OutPath(j, fmt) ==
    [task |-> Tid(j),
     suffix |-> IF get_media_type(Ext(j)) = "image" THEN "original" ELSE "",
     fmt |-> fmt]

\* The formats the job's media kind can be written in (service.py:178, 230).
Supported(j) ==
    IF get_media_type(Ext(j)) = "image" THEN IMAGE_OUTPUT_FORMATS ELSE VIDEO_OUTPUT_FORMATS

\* The index of the first requested format at or after k that the loop does
\* not skip with `continue` (service.py:178-179, 230-232); 0 when none is left.
NextIndex(j, k) ==
    LET rest == {n \in k..Len(Fmts(j)) : Fmts(j)[n] \in Supported(j)}
    IN  IF rest = {} THEN 0 ELSE CHOOSE n \in rest : \A m \in rest : n <= m

\* step / total * 100.0 in whole percent (total <= 100, so distinct step
\* counts give distinct values and the order of values is the order of steps).
Percent(n, total) == (n * 100) \div total

\* the pool's busy workers
Running == {j \in Jobs : jpc[j] \notin {"idle", "queued", "returned", "raised"}}

\* the state of the service, the batch registry and the directories at start
MainIdle ==
    /\ cpc = [c \in Calls |-> "idle"]
    /\ req = EmptyDict
    /\ result = [c \in Calls |-> <<>>]
    /\ cjob = [c \in Calls |-> NoJob]
    /\ cexc = [c \in Calls |-> None]
    /\ batches = EmptyDict
    /\ dbrow = EmptyDict
    /\ archive = EmptyDict
    /\ zipcalls = [c \in Calls |-> 0]
    /\ srcfiles = {}
    /\ outfiles = {}
    /\ unlinkerr = {}
    /\ tasks = EmptyDict
    /\ jpc = [j \in Jobs |-> "idle"]
    /\ jk = [j \in Jobs |-> 0]
    /\ jstep = [j \in Jobs |-> 0]
    /\ jexc = [j \in Jobs |-> None]

\* no conversion with size presets has been asked for
SizeIdle ==
    /\ szreq = [labels |-> <<>>, fmts |-> <<>>, stems |-> <<>>]
    /\ sztask = EmptyDict
    /\ szpc = [i \in 1..MaxFiles |-> "idle"]
    /\ szparsed = [i \in 1..MaxFiles |-> <<>>]
    /\ szpos = [i \in 1..MaxFiles |-> <<1, 1>>]
    /\ szstep = [i \in 1..MaxFiles |-> 0]
    /\ szwrites = {}

\* service.py:37: the executor has no work; the event loop is free
PoolIdle ==
    /\ pool = [k \in 1..MaxSubmits |-> "unsubmitted"]
    /\ loop = "free"
    /\ uploads = 0

\* nothing has been polled
NoPoll == [kind |-> "none"]
PollIdle == poll = NoPoll

\* no call of create_zip_from_task_outputs
ZipIdle ==
    /\ zcall = [folder_structure |-> "flat", tasks |-> <<>>]
    /\ zpos = <<1, 1>>
    /\ zmembers = <<>>

\* no conversion with a size-reduction percent
QualityIdle ==
    /\ qcall = <<>>
    /\ quality = <<>>

\* no call of resize_to_fit
ResizeIdle ==
    /\ rcall = <<>>
    /\ rbox = [kind |-> "none"]

\* no call of hex_to_rgb
HexIdle ==
    /\ hcall = <<>>
    /\ hrgb = [kind |-> "none"]

Init ==
    /\ MainIdle /\ SizeIdle /\ PoolIdle /\ PollIdle
    /\ ZipIdle /\ QualityIdle /\ ResizeIdle /\ HexIdle



\* a handler that drops the message of the exception it caught
FailureText_Dropped(j) == None

\* service.py:212, 283, 331: str(e) of the exception job j's handler caught
FailureText(j) == jexc[j]

\* a total that counts only the formats the media kind supports
Total_SupportedOnly(j) ==
    IF {n \in 1..Len(Fmts(j)) : Fmts(j)[n] \in Supported(j)} = {}
    THEN 1
    ELSE Cardinality({n \in 1..Len(Fmts(j)) : Fmts(j)[n] \in Supported(j)})

\* service.py:123-125 with one size preset; service.py:225
Total(j) == IF Len(Fmts(j)) = 0 THEN 1 ELSE Len(Fmts(j))

\* ------------------------------------------------- task field assignment
SetTask(t, f, v) == tasks' = [tasks EXCEPT ![t][f] = v]
AppendTask(t, f, v) == tasks' = [tasks EXCEPT ![t][f] = Append(@, v)]
Goto(j, p) == jpc' = [jpc EXCEPT ![j] = p]

\* =================================================== ConversionService.convert
\* service.py:306-309.  A pool worker takes the queued call; _create_task
\* registers a new task in status pending.  (convert_many submits supported
\* paths only, so the ValueError of line 308 cannot be raised here.)
ConvertStart(j) ==
    /\ jpc[j] = "queued"
    /\ Cardinality(Running) < MAX_WORKERS
    /\ tasks' = Put(tasks, Tid(j), NewTask)
    /\ Goto(j, "L310")
    /\ UNCHANGED <<callVars, batchVars, fsVars, jk, jstep, jexc, auxVars>>

\* service.py:310: task.status = TaskStatus.CONVERTING
ConvertMarkConverting(j) ==
    /\ jpc[j] = "L310"
    /\ SetTask(Tid(j), "status", "converting")
    /\ Goto(j, "L312")
    /\ UNCHANGED <<callVars, batchVars, fsVars, jk, jstep, jexc, auxVars>>

\* service.py:312-326 and the prologue of the media routine: input size,
\* _parse_size_presets, then _convert_image lines 118-136 (status and
\* progress are assigned the values they already hold; Image.open may raise)
\* or _convert_video lines 222-226.
ConvertDispatch(j) ==
    /\ jpc[j] = "L312"
    /\ SetTask(Tid(j), "progress", 0)
    /\ IF get_media_type(Ext(j)) = "image"
       THEN \/ /\ Goto(j, "L158")
               /\ jexc' = jexc
            \/ /\ Goto(j, "L211")
               /\ jexc' = [jexc EXCEPT ![j] = "cannot identify image file"]
       ELSE /\ Goto(j, "L228")
            /\ jexc' = jexc
    /\ jk' = [jk EXCEPT ![j] = 1]
    /\ jstep' = [jstep EXCEPT ![j] = 0]
    /\ UNCHANGED <<callVars, batchVars, fsVars, auxVars>>

\* ------------------------------------------------------------ _convert_image
\* service.py:158-198: the loop head.  Unsupported formats are skipped
\* (178-179); the next supported one is encoded and saved (198), which may
\* raise; with no format left the loop ends and line 206 marks the task
\* completed.
ImageSave(j) ==
    /\ jpc[j] = "L158"
    /\ LET k == NextIndex(j, jk[j]) IN
       IF k = 0
       THEN /\ SetTask(Tid(j), "status", "completed")
            /\ Goto(j, "L207")
            /\ UNCHANGED <<jk, jexc, outfiles>>
       ELSE \/ /\ outfiles' = outfiles \cup {OutPath(j, Fmts(j)[k])}
               /\ jk' = [jk EXCEPT ![j] = k]
               /\ Goto(j, "L200")
               /\ UNCHANGED <<tasks, jexc>>
            \/ /\ jexc' = [jexc EXCEPT ![j] = "encoder error"]
               /\ jk' = [jk EXCEPT ![j] = k]
               /\ Goto(j, "L211")
               /\ UNCHANGED <<tasks, outfiles>>
    /\ UNCHANGED <<callVars, batchVars, srcfiles, unlinkerr, jstep, auxVars>>

\* service.py:199-201: outputs.append; step += 1; task.progress = step / total * 100.0
ImageProgress(j) ==
    /\ jpc[j] = "L200"
    /\ jstep' = [jstep EXCEPT ![j] = @ + 1]
    /\ SetTask(Tid(j), "progress", Percent(jstep[j] + 1, Total(j)))
    /\ Goto(j, "L202")
    /\ UNCHANGED <<callVars, batchVars, fsVars, jk, jexc, auxVars>>

\* service.py:202: task.output_paths.append(str(out_path))
ImageAppendPath(j) ==
    /\ jpc[j] = "L202"
    /\ AppendTask(Tid(j), "output_paths", OutPath(j, Fmts(j)[jk[j]]))
    /\ Goto(j, "L203")
    /\ UNCHANGED <<callVars, batchVars, fsVars, jk, jstep, jexc, auxVars>>

\* service.py:203: task.output_formats.append(fmt)
ImageAppendFormat(j) ==
    /\ jpc[j] = "L203"
    /\ AppendTask(Tid(j), "output_formats", Fmts(j)[jk[j]])
    /\ Goto(j, "L204")
    /\ UNCHANGED <<callVars, batchVars, fsVars, jk, jstep, jexc, auxVars>>

\* service.py:204: task.output_sizes.append(out_path.stat().st_size); next
\* format.  stat() raises when the file just written is gone again (outputs
\* are deleted by cleanup_task_outputs and session_delete_data while
\* conversions run): line 209 catches it.
ImageAppendSize(j) ==
    /\ jpc[j] = "L204"
    /\ \/ /\ AppendTask(Tid(j), "output_sizes", 1)
          /\ jk' = [jk EXCEPT ![j] = @ + 1]
          /\ Goto(j, "L158")
          /\ jexc' = jexc
       \/ /\ jexc' = [jexc EXCEPT ![j] = StatError]
          /\ Goto(j, "L211")
          /\ UNCHANGED <<tasks, jk>>
    /\ UNCHANGED <<callVars, batchVars, fsVars, jstep, auxVars>>

\* Where convert continues after the media routine returned normally
\* (service.py:327): the callback, when one was given.
AfterRoutine(j) == IF HasCb(j) THEN "L328" ELSE "returned"

\* service.py:207-208: task.progress = 100.0; return outputs
ImageFinish(j) ==
    /\ jpc[j] = "L207"
    /\ SetTask(Tid(j), "progress", 100)
    /\ Goto(j, AfterRoutine(j))
    /\ UNCHANGED <<callVars, batchVars, fsVars, jk, jstep, jexc, auxVars>>

\* service.py:209-211: except Exception as e: task.status = TaskStatus.FAILED
ImageFailStatus(j) ==
    /\ jpc[j] = "L211"
    /\ SetTask(Tid(j), "status", "failed")
    /\ Goto(j, "L212")
    /\ UNCHANGED <<callVars, batchVars, fsVars, jk, jstep, jexc, auxVars>>

\* service.py:212-213: task.error = str(e); raise   (caught at line 329)
ImageFailError(j) ==
    /\ jpc[j] = "L212"
    /\ SetTask(Tid(j), "error", FailureText(j))
    /\ Goto(j, "L330")
    /\ UNCHANGED <<callVars, batchVars, fsVars, jk, jstep, jexc, auxVars>>


\* ------------------------------------------------------------ _convert_video
\* service.py:228-269: the loop head.  Unsupported formats are skipped
\* without a progress update (230-232); for the next supported one the
\* external transcoder runs (262-267) and returns 0, or is missing
\* (FileNotFoundError, 275), or fails: a non-zero exit (RuntimeError, 268-269)
\* or the 300 s timeout (TimeoutExpired), both caught at 280.  With no format
\* left the loop ends and line 286 marks the task completed.
VideoTranscode(j) ==
    /\ jpc[j] = "L228"
    /\ LET k == NextIndex(j, jk[j]) IN
       IF k = 0
       THEN /\ SetTask(Tid(j), "status", "completed")
            /\ Goto(j, "L287")
            /\ UNCHANGED <<jk, jexc, outfiles>>
       ELSE \/ /\ outfiles' = outfiles \cup {OutPath(j, Fmts(j)[k])}
               /\ jk' = [jk EXCEPT ![j] = k]
               /\ Goto(j, "L271")
               /\ UNCHANGED <<tasks, jexc>>
            \/ /\ jexc' = [jexc EXCEPT ![j] = "No such file or directory: ffmpeg"]
               /\ jk' = [jk EXCEPT ![j] = k]
               /\ Goto(j, "L277")
               /\ UNCHANGED <<tasks, outfiles>>
            \/ /\ jexc' = [jexc EXCEPT ![j] = "ffmpeg failed"]
               /\ jk' = [jk EXCEPT ![j] = k]
               /\ Goto(j, "L282")
               /\ UNCHANGED <<tasks, outfiles>>
    /\ UNCHANGED <<callVars, batchVars, srcfiles, unlinkerr, jstep, auxVars>>

\* service.py:270-271: outputs.append; task.output_paths.append(str(out_path))
VideoAppendPath(j) ==
    /\ jpc[j] = "L271"
    /\ AppendTask(Tid(j), "output_paths", OutPath(j, Fmts(j)[jk[j]]))
    /\ Goto(j, "L272")
    /\ UNCHANGED <<callVars, batchVars, fsVars, jk, jstep, jexc, auxVars>>

\* service.py:272: task.output_formats.append(fmt)
VideoAppendFormat(j) ==
    /\ jpc[j] = "L272"
    /\ AppendTask(Tid(j), "output_formats", Fmts(j)[jk[j]])
    /\ Goto(j, "L273")
    /\ UNCHANGED <<callVars, batchVars, fsVars, jk, jstep, jexc, auxVars>>

\* service.py:273: task.output_sizes.append(out_path.stat().st_size).  The
\* statement is inside the try of line 234: the FileNotFoundError stat()
\* raises when the file is gone is caught by line 275.
VideoAppendSize(j) ==
    /\ jpc[j] = "L273"
    /\ \/ /\ AppendTask(Tid(j), "output_sizes", 1)
          /\ Goto(j, "L285")
          /\ jexc' = jexc
       \/ /\ jexc' = [jexc EXCEPT ![j] = StatError]
          /\ Goto(j, "L277")
          /\ UNCHANGED tasks
    /\ UNCHANGED <<callVars, batchVars, fsVars, jk, jstep, auxVars>>

\* service.py:285: task.progress = (i + 1) / total * 100.0, i the 0-based
\* index of the format in out_formats; next format
VideoProgress(j) ==
    /\ jpc[j] = "L285"
    /\ SetTask(Tid(j), "progress", Percent(jk[j], Total(j)))
    /\ jk' = [jk EXCEPT ![j] = @ + 1]
    /\ Goto(j, "L228")
    /\ UNCHANGED <<callVars, batchVars, fsVars, jstep, jexc, auxVars>>

\* service.py:287-288: task.progress = 100.0; return outputs
VideoFinish(j) ==
    /\ jpc[j] = "L287"
    /\ SetTask(Tid(j), "progress", 100)
    /\ Goto(j, AfterRoutine(j))
    /\ UNCHANGED <<callVars, batchVars, fsVars, jk, jstep, jexc, auxVars>>

\* service.py:275-277: except FileNotFoundError: task.status = TaskStatus.FAILED
VideoMissingStatus(j) ==
    /\ jpc[j] = "L277"
    /\ SetTask(Tid(j), "status", "failed")
    /\ Goto(j, "L278")
    /\ UNCHANGED <<callVars, batchVars, fsVars, jk, jstep, jexc, auxVars>>

\* service.py:278-279: task.error = "ffmpeg not installed"; raise
VideoMissingError(j) ==
    /\ jpc[j] = "L278"
    /\ SetTask(Tid(j), "error", "ffmpeg not installed")
    /\ Goto(j, "L330")
    /\ UNCHANGED <<callVars, batchVars, fsVars, jk, jstep, jexc, auxVars>>

\* service.py:280-282: except Exception as e: task.status = TaskStatus.FAILED
VideoFailStatus(j) ==
    /\ jpc[j] = "L282"
    /\ SetTask(Tid(j), "status", "failed")
    /\ Goto(j, "L283")
    /\ UNCHANGED <<callVars, batchVars, fsVars, jk, jstep, jexc, auxVars>>

\* service.py:283-284: task.error = str(e); raise
VideoFailError(j) ==
    /\ jpc[j] = "L283"
    /\ SetTask(Tid(j), "error", FailureText(j))
    /\ Goto(j, "L330")
    /\ UNCHANGED <<callVars, batchVars, fsVars, jk, jstep, jexc, auxVars>>

\* ------------------------------------------------- convert, after the routine
\* service.py:327-328: on_progress(task.task_id, 100.0), inside the try: the
\* callback returns, or raises and line 329 catches it.
ConvertCallback(j) ==
    /\ jpc[j] = "L328"
    /\ \/ /\ Goto(j, "returned")
          /\ jexc' = jexc
       \/ /\ Goto(j, "L330")
          /\ jexc' = [jexc EXCEPT ![j] = "callback error"]
    /\ UNCHANGED <<callVars, batchVars, fsVars, tasks, jk, jstep, auxVars>>

\* service.py:329-330: except Exception as e: task.status = TaskStatus.FAILED
ConvertFailStatus(j) ==
    /\ jpc[j] = "L330"
    /\ SetTask(Tid(j), "status", "failed")
    /\ Goto(j, "L331")
    /\ UNCHANGED <<callVars, batchVars, fsVars, jk, jstep, jexc, auxVars>>

\* Where convert's handler continues after line 331: the callback of line
\* 333 when one was given, else `return task` (335).
AfterHandler(j) == IF HasCb(j) THEN "L333" ELSE "returned"

\* service.py:331: task.error = str(e)
ConvertFailError(j) ==
    /\ jpc[j] = "L331"
    /\ SetTask(Tid(j), "error", FailureText(j))
    /\ Goto(j, AfterHandler(j))
    /\ UNCHANGED <<callVars, batchVars, fsVars, jk, jstep, jexc, auxVars>>

\* service.py:332-335: on_progress(task.task_id, task.progress) inside the
\* handler: it returns and convert returns the task, or it raises and the
\* exception leaves convert (the future holds an exception).
ConvertHandlerCallback(j) ==
    /\ jpc[j] = "L333"
    /\ \/ /\ Goto(j, "returned")
          /\ jexc' = jexc
       \/ /\ Goto(j, "raised")
          /\ jexc' = [jexc EXCEPT ![j] = "callback error"]
    /\ UNCHANGED <<callVars, batchVars, fsVars, tasks, jk, jstep, auxVars>>

JobStep(j) ==
    \/ ConvertStart(j)
    \/ ConvertMarkConverting(j)
    \/ ConvertDispatch(j)
    \/ ImageSave(j)
    \/ ImageProgress(j)
    \/ ImageAppendPath(j)
    \/ ImageAppendFormat(j)
    \/ ImageAppendSize(j)
    \/ ImageFinish(j)
    \/ ImageFailStatus(j)
    \/ ImageFailError(j)
    \/ VideoTranscode(j)
    \/ VideoAppendPath(j)
    \/ VideoAppendFormat(j)
    \/ VideoAppendSize(j)
    \/ VideoProgress(j)
    \/ VideoFinish(j)
    \/ VideoMissingStatus(j)
    \/ VideoMissingError(j)
    \/ VideoFailStatus(j)
    \/ VideoFailError(j)
    \/ ConvertCallback(j)
    \/ ConvertFailStatus(j)
    \/ ConvertFailError(j)
    \/ ConvertHandlerCallback(j)


\* ================================================================ requests
CGoto(c, p) == cpc' = [cpc EXCEPT ![c] = p]
SourceFiles(c, r) == {j \in Jobs : j[1] = c /\ j[2] \in 1..Len(r.files)}

\* db.py:254-285: the row save_batch writes
NewRow == [status |-> "processing", task_ids |-> <<>>, error |-> None, zip_filename |-> None]

\* routes.py:549-646: upload_batch.  The accepted files are stored in
\* UPLOAD_DIR (594-622); create_batch (batch.py:44-48) puts the BatchJob in
\* _batches and calls save_batch, which writes the row or raises.  When it
\* raises, the request ends with the error and line 645 (add_task) is never
\* reached: nothing will run _run_batch_and_zip for this batch.
UploadBatch(c) ==
    /\ cpc[c] = "idle"
    /\ \E r \in BatchRequests :
        /\ req' = Put(req, c, r)
        /\ srcfiles' = srcfiles \cup SourceFiles(c, r)
    /\ batches' = Put(batches, c, NewBatch)
    /\ \/ /\ dbrow' = Put(dbrow, c, NewRow)
          /\ CGoto(c, "L353")
       \/ /\ dbrow' = dbrow
          /\ CGoto(c, "rejected")
    /\ UNCHANGED <<result, cjob, cexc, archive, zipcalls, outfiles, unlinkerr, tasks, jobVars, auxVars>>

\* service.py:306-308: convert called directly on one path.  An extension
\* that is neither an image's nor a video's raises ValueError before
\* _create_task; otherwise the conversion runs in the caller's thread.
CallConvert(c) ==
    /\ cpc[c] = "idle"
    /\ \E r \in SingleRequests :
        /\ req' = Put(req, c, r)
        /\ srcfiles' = srcfiles \cup SourceFiles(c, r)
        /\ IF get_media_type(r.files[1]) = None
           THEN /\ CGoto(c, "raised")
                /\ cexc' = [cexc EXCEPT ![c] = "Unsupported file type"]
                /\ jpc' = jpc
           ELSE /\ CGoto(c, "L309")
                /\ cexc' = cexc
                /\ jpc' = [jpc EXCEPT ![<<c, 1>>] = "queued"]
    /\ UNCHANGED <<result, cjob, batchVars, outfiles, unlinkerr, tasks, jk, jstep, jexc, auxVars>>

\* service.py:335 (return task) or an exception leaving convert (333): the
\* direct caller has the task, or the exception.
ConvertReturn(c) ==
    /\ cpc[c] = "L309"
    /\ jpc[<<c, 1>>] \in {"returned", "raised"}
    /\ CGoto(c, jpc[<<c, 1>>])
    /\ result' = [result EXCEPT ![c] =
                    IF jpc[<<c, 1>>] = "returned" THEN <<Tid(<<c, 1>>)>> ELSE <<>>]
    /\ cexc' = [cexc EXCEPT ![c] = jexc[<<c, 1>>]]
    /\ UNCHANGED <<req, cjob, batchVars, fsVars, tasks, jobVars, auxVars>>

\* service.py:337-351: convert_many called on files that are in UPLOAD_DIR
\* (as routes.py:370-384 does), with no BatchJob.
CallConvertMany(c) ==
    /\ cpc[c] = "idle"
    /\ \E r \in DirectRequests :
        /\ req' = Put(req, c, r)
        /\ srcfiles' = srcfiles \cup SourceFiles(c, r)
    /\ CGoto(c, "L353")
    /\ UNCHANGED <<result, cjob, cexc, batchVars, outfiles, unlinkerr, tasks, jobVars, auxVars>>

\* ============================================ ConversionService.convert_many
\* service.py:353-377: one convert call per supported path is submitted to
\* the executor.
Submit(c) ==
    /\ cpc[c] = "L353"
    /\ jpc' = [j \in Jobs |-> IF j \in ValidJobs(c) THEN "queued" ELSE jpc[j]]
    /\ CGoto(c, "L379")
    /\ UNCHANGED <<req, result, cjob, cexc, batchVars, fsVars, tasks, jk, jstep, jexc, auxVars>>

\* the futures the as_completed loop has handled or is handling
Collected(c) ==
    {JobOfTask(result[c][n]) : n \in 1..Len(result[c])}
        \cup (IF cjob[c] = NoJob THEN {} ELSE {cjob[c]})

\* Where the caller continues when convert_many returns (service.py:390):
\* _run_batch_and_zip at routes.py:512, or the direct caller.
AfterConvertMany(c) == IF req[c].batch THEN "L512" ELSE "returned"

\* a loop that gives up at the first future holding an exception and returns
\* what it has collected so far
OnFutureException_Abort(c) == AfterConvertMany(c)

\* service.py:383-385: except Exception as e: the loop goes on at line 386
OnFutureException(c) == "L386"

\* service.py:379-390: as_completed yields a finished future.  A result is
\* appended (381-382); an exception sends the loop to line 384; when every
\* future has been handled, convert_many returns the list.
Collect(c) ==
    /\ cpc[c] = "L379"
    /\ IF Collected(c) = ValidJobs(c)
       THEN /\ CGoto(c, AfterConvertMany(c))
            /\ UNCHANGED <<result, cjob>>
       ELSE \E j \in ValidJobs(c) \ Collected(c) :
            \/ /\ jpc[j] = "returned"
               /\ result' = [result EXCEPT ![c] = Append(@, Tid(j))]
               /\ UNCHANGED <<cpc, cjob>>
            \/ /\ jpc[j] = "raised"
               /\ cjob' = [cjob EXCEPT ![c] = j]
               /\ CGoto(c, OnFutureException(c))
               /\ UNCHANGED result
    /\ UNCHANGED <<req, cexc, batchVars, fsVars, tasks, jobVars, auxVars>>

\* service.py:384-386: task = self._create_task(...): a second task for the
\* same file, in status pending
SynthCreate(c) ==
    /\ cpc[c] = "L386"
    /\ tasks' = Put(tasks, SynthTid(cjob[c]), NewTask)
    /\ CGoto(c, "L387")
    /\ UNCHANGED <<req, result, cjob, cexc, batchVars, fsVars, jobVars, auxVars>>

\* service.py:387: task.status = TaskStatus.FAILED
SynthFailStatus(c) ==
    /\ cpc[c] = "L387"
    /\ SetTask(SynthTid(cjob[c]), "status", "failed")
    /\ CGoto(c, "L388")
    /\ UNCHANGED <<req, result, cjob, cexc, batchVars, fsVars, jobVars, auxVars>>

\* service.py:388-389: task.error = str(e); tasks.append(task)
SynthFailError(c) ==
    /\ cpc[c] = "L388"
    /\ SetTask(SynthTid(cjob[c]), "error", jexc[cjob[c]])
    /\ result' = [result EXCEPT ![c] = Append(@, SynthTid(cjob[c]))]
    /\ cjob' = [cjob EXCEPT ![c] = NoJob]
    /\ CGoto(c, "L379")
    /\ UNCHANGED <<req, cexc, batchVars, fsVars, jobVars, auxVars>>


\* ======================================================= _run_batch_and_zip
SetBatch(c, f, v) == batches' = [batches EXCEPT ![c][f] = v]

\* db.py:450-471: update_batch_status, when it does not raise: an UPDATE of
\* the row with that batch_id (no row, no effect); task_ids, error and
\* zip_filename are written only when given.
\* `given` holds the optional columns that were passed (not None).
UpdatedRows(rows, c, status, given) ==
    [b \in DOMAIN rows |->
        IF b # c THEN rows[b]
        ELSE [f \in DOMAIN rows[b] |->
                IF f = "status" THEN status
                ELSE IF f \in DOMAIN given THEN given[f]
                ELSE rows[b][f]]]

\* routes.py:512-524: record_activity for every returned task (session_id is
\* always given by upload_batch); the gateway call returns or raises.
RecordActivity(c) ==
    /\ cpc[c] = "L512"
    /\ \/ /\ CGoto(c, "L525")
          /\ cexc' = cexc
       \/ /\ CGoto(c, "L539")
          /\ cexc' = [cexc EXCEPT ![c] = "database error"]
    /\ UNCHANGED <<req, result, cjob, batchVars, fsVars, tasks, jobVars, auxVars>>

\* routes.py:525: the ids of the returned tasks that have at least one
\* output path, in the order of `tasks`
ContributingIds(c) == SelectSeq(result[c], LAMBDA t : tasks[t].output_paths # <<>>)

\* batch.py:88-104: the files written into the archive: every path of every
\* listed task that is a file (95-96 skips the others)
ArchiveFiles(c) ==
    {p \in outfiles :
        \E n \in 1..Len(ContributingIds(c)) :
            \E m \in 1..Len(tasks[ContributingIds(c)[n]].output_paths) :
                tasks[ContributingIds(c)[n]].output_paths[m] = p}

\* batch.py:87, 106: f"{batch_id}.zip"
ZipName(c) == ToString(c) \o ".zip"

\* routes.py:525-536: with at least one contributing task the archive is
\* assembled (create_zip_from_task_outputs returns the zip name, or raises);
\* with none, set_batch_failed(batch_id, "No outputs produced") is called.
AssembleArchive(c) ==
    /\ cpc[c] = "L525"
    /\ IF ContributingIds(c) # <<>>
       THEN /\ zipcalls' = [zipcalls EXCEPT ![c] = @ + 1]
            /\ \/ /\ archive' = Put(archive, ZipName(c), ArchiveFiles(c))
                  /\ CGoto(c, "L54")
                  /\ cexc' = cexc
               \/ /\ archive' = archive
                  /\ CGoto(c, "L539")
                  /\ cexc' = [cexc EXCEPT ![c] = "archive error"]
       ELSE /\ CGoto(c, "L64")
            /\ UNCHANGED <<archive, zipcalls, cexc>>
    /\ UNCHANGED <<req, result, cjob, batches, dbrow, fsVars, tasks, jobVars, auxVars>>

\* batch.py:52-54: set_batch_completed: job.status = "completed"
CompletedStatus(c) ==
    /\ cpc[c] = "L54"
    /\ SetBatch(c, "status", "completed")
    /\ CGoto(c, "L55")
    /\ UNCHANGED <<req, result, cjob, cexc, dbrow, archive, zipcalls, fsVars, tasks, jobVars, auxVars>>

\* batch.py:55: job.zip_filename = zip_filename
CompletedZip(c) ==
    /\ cpc[c] = "L55"
    /\ SetBatch(c, "zip_filename", ZipName(c))
    /\ CGoto(c, "L57")
    /\ UNCHANGED <<req, result, cjob, cexc, dbrow, archive, zipcalls, fsVars, tasks, jobVars, auxVars>>

\* batch.py:56-57: job.task_ids = task_ids
CompletedTaskIds(c) ==
    /\ cpc[c] = "L57"
    /\ SetBatch(c, "task_ids", ContributingIds(c))
    /\ CGoto(c, "L58")
    /\ UNCHANGED <<req, result, cjob, cexc, dbrow, archive, zipcalls, fsVars, tasks, jobVars, auxVars>>

\* batch.py:58: update_batch_status(batch_id, "completed", ...): the row is
\* updated, or the gateway raises and routes.py:537 catches it.
CompletedPersist(c) ==
    /\ cpc[c] = "L58"
    /\ \/ /\ dbrow' = UpdatedRows(dbrow, c, "completed",
                        [task_ids |-> ContributingIds(c), zip_filename |-> ZipName(c)])
          /\ CGoto(c, "L541")
          /\ cexc' = cexc
       \/ /\ dbrow' = dbrow
          /\ CGoto(c, "L539")
          /\ cexc' = [cexc EXCEPT ![c] = "database error"]
    /\ UNCHANGED <<req, result, cjob, batches, archive, zipcalls, fsVars, tasks, jobVars, auxVars>>

\* routes.py:536 -> batch.py:62-64: set_batch_failed: job.status = "failed"
NoOutputStatus(c) ==
    /\ cpc[c] = "L64"
    /\ SetBatch(c, "status", "failed")
    /\ CGoto(c, "L65")
    /\ UNCHANGED <<req, result, cjob, cexc, dbrow, archive, zipcalls, fsVars, tasks, jobVars, auxVars>>

\* batch.py:65: job.error = error, the error of routes.py:536
NoOutputError(c) ==
    /\ cpc[c] = "L65"
    /\ SetBatch(c, "error", "No outputs produced")
    /\ CGoto(c, "L66")
    /\ UNCHANGED <<req, result, cjob, cexc, dbrow, archive, zipcalls, fsVars, tasks, jobVars, auxVars>>

\* batch.py:66: update_batch_status(batch_id, "failed", error=error): the
\* row is updated, or the gateway raises and routes.py:537 catches it.
NoOutputPersist(c) ==
    /\ cpc[c] = "L66"
    /\ \/ /\ dbrow' = UpdatedRows(dbrow, c, "failed", [error |-> "No outputs produced"])
          /\ CGoto(c, "L541")
          /\ cexc' = cexc
       \/ /\ dbrow' = dbrow
          /\ CGoto(c, "L539")
          /\ cexc' = [cexc EXCEPT ![c] = "database error"]
    /\ UNCHANGED <<req, result, cjob, batches, archive, zipcalls, fsVars, tasks, jobVars, auxVars>>

\* routes.py:537-539: except Exception as e: set_batch_failed(batch_id, str(e))
\* -> batch.py:62-64: job.status = "failed"
HandlerStatus(c) ==
    /\ cpc[c] = "L539"
    /\ SetBatch(c, "status", "failed")
    /\ CGoto(c, "H65")
    /\ UNCHANGED <<req, result, cjob, cexc, dbrow, archive, zipcalls, fsVars, tasks, jobVars, auxVars>>

\* a handler that reports a fixed text instead of the exception's message
HandlerMessage_Generic(c) == "Batch failed"

\* routes.py:539: the error handed to set_batch_failed: str(e)
HandlerMessage(c) == cexc[c]

\* batch.py:65, called from the handler: job.error = error
HandlerError(c) ==
    /\ cpc[c] = "H65"
    /\ SetBatch(c, "error", HandlerMessage(c))
    /\ CGoto(c, "H66")
    /\ UNCHANGED <<req, result, cjob, cexc, dbrow, archive, zipcalls, fsVars, tasks, jobVars, auxVars>>

\* batch.py:66, called from the handler: the row is updated, or the gateway
\* raises; that exception leaves the handler, and the finally clause runs
\* either way.
HandlerPersist(c) ==
    /\ cpc[c] = "H66"
    /\ \/ dbrow' = UpdatedRows(dbrow, c, "failed", [error |-> HandlerMessage(c)])
       \/ dbrow' = dbrow
    /\ CGoto(c, "L541")
    /\ UNCHANGED <<req, result, cjob, cexc, batches, archive, zipcalls, fsVars, tasks, jobVars, auxVars>>

\* a cleanup at the end of the try block instead of a finally clause: it is
\* skipped when an exception was caught
AfterCleanup_TryOnly(c, refused) ==
    IF cexc[c] = None
    THEN srcfiles \ (SourceFiles(c, req[c]) \ refused)
    ELSE srcfiles

\* routes.py:540-546: the source files left in UPLOAD_DIR once the finally
\* clause has gone through the uploaded files: every one that exists is
\* unlinked, and one whose unlink raised OSError (the set refused) stays.
AfterCleanup(c, refused) == srcfiles \ (SourceFiles(c, req[c]) \ refused)

\* routes.py:540-546: finally: for d in uploaded: unlink d if it exists,
\* except OSError: pass; then the thread ends.
Cleanup(c) ==
    /\ cpc[c] = "L541"
    /\ \E refused \in SUBSET (SourceFiles(c, req[c]) \cap srcfiles) :
        /\ srcfiles' = AfterCleanup(c, refused)
        /\ unlinkerr' = unlinkerr \cup refused
    /\ CGoto(c, "done")
    /\ UNCHANGED <<req, result, cjob, cexc, batchVars, outfiles, tasks, jobVars, auxVars>>

\* routes.py:385-387, 265-266: once convert_many (convert) has returned, the
\* request schedules svc.cleanup_upload for every uploaded file.
\* service.py:403-411: the file is unlinked, or the OSError is logged.
CleanupUpload(c) ==
    /\ cpc[c] = "returned"
    /\ ~req[c].batch
    /\ \E j \in (SourceFiles(c, req[c]) \cap srcfiles) \ unlinkerr :
          \/ /\ srcfiles' = srcfiles \ {j}
             /\ unlinkerr' = unlinkerr
          \/ /\ srcfiles' = srcfiles
             /\ unlinkerr' = unlinkerr \cup {j}
    /\ UNCHANGED <<callVars, batchVars, outfiles, tasks, jobVars, auxVars>>

CallStep(c) ==
    \/ UploadBatch(c)
    \/ CleanupUpload(c)
    \/ CallConvertMany(c)
    \/ CallConvert(c)
    \/ ConvertReturn(c)
    \/ Submit(c)
    \/ Collect(c)
    \/ SynthCreate(c)
    \/ SynthFailStatus(c)
    \/ SynthFailError(c)
    \/ RecordActivity(c)
    \/ AssembleArchive(c)
    \/ CompletedStatus(c)
    \/ CompletedZip(c)
    \/ CompletedTaskIds(c)
    \/ CompletedPersist(c)
    \/ NoOutputStatus(c)
    \/ NoOutputError(c)
    \/ NoOutputPersist(c)
    \/ HandlerStatus(c)
    \/ HandlerError(c)
    \/ HandlerPersist(c)
    \/ Cleanup(c)

Next ==
    \/ \E c \in Calls : CallStep(c)
    \/ \E j \in Jobs : JobStep(j)

Spec == Init /\ [][Next]_vars


\* The threads keep running: a request handler, the batch thread and every
\* pool worker take their next step when they have one (the executor runs
\* every submitted call; codec and transcoder calls return or time out).
FairSpec ==
    /\ Spec
    /\ \A c \in Calls : WF_vars(CallStep(c))
    /\ \A j \in Jobs : WF_vars(JobStep(j))

\* ================================================================== claims
Terminal == {"completed", "failed"}

\* C1.  A task's status moves only pending -> converting -> completed or
\* pending -> converting -> failed, and a completed or failed task keeps its
\* status, whatever the codec, the transcoder and on_progress do.
C1_StatusStateMachine ==
    [][\A t \in DOMAIN tasks :
         tasks'[t].status # tasks[t].status =>
            <<tasks[t].status, tasks'[t].status>> \in
                {<<"pending", "converting">>,
                 <<"converting", "completed">>,
                 <<"converting", "failed">>}]_vars

\* The batch thread is between the assignments of one set_batch_completed /
\* set_batch_failed call: the BatchJob is half written.
MidAssignment(c) == cpc[c] \in {"L55", "L57", "L65", "H65"}

\* C2.  A BatchJob's status changes only from processing, to completed or
\* failed, and once that transition is made (the setter's assignments are
\* through) status, error and zip_filename stay as they are.
C2_BatchTransitionsOnce ==
    [][\A b \in DOMAIN batches :
         /\ batches'[b].status # batches[b].status =>
               /\ batches[b].status = "processing"
               /\ batches'[b].status \in Terminal
         /\ (batches[b].status \in Terminal /\ ~MidAssignment(b)) =>
               /\ batches'[b].status = batches[b].status
               /\ batches'[b].error = batches[b].error
               /\ batches'[b].zip_filename = batches[b].zip_filename]_vars

\* C3.  In every state in which no setter is half way through its
\* assignments, a BatchJob has a zip_filename iff it is completed and an
\* error iff it is failed.
C3_BatchFieldsMatchStatus ==
    \A b \in DOMAIN batches :
        ~MidAssignment(b) =>
            /\ (batches[b].zip_filename # None) <=> (batches[b].status = "completed")
            /\ (batches[b].error # None) <=> (batches[b].status = "failed")

\* C4.  Every batch for which create_batch was called eventually is
\* completed or failed (under FairSpec), whether gateway calls succeed or raise.
C4_BatchEventuallyEnds ==
    \A c \in Calls :
        (c \in DOMAIN batches) ~>
            (c \in DOMAIN batches /\ batches[c].status \in Terminal)

\* the batch thread has ended
BatchEnded(c) == c \in DOMAIN batches /\ cpc[c] = "done"

HasOutput(c) == \E n \in 1..Len(result[c]) : tasks[result[c][n]].output_paths # <<>>

\* C5.  When the batch thread has ended and archive assembly did not raise,
\* the batch is completed iff some member task has an output path, and is
\* otherwise failed with a non-empty error.
C5_CompletedIffOutput ==
    \A c \in Calls :
        (BatchEnded(c) /\ cexc[c] # "archive error") =>
            /\ (batches[c].status = "completed") <=> HasOutput(c)
            /\ ~HasOutput(c) =>
                  /\ batches[c].status = "failed"
                  /\ batches[c].error \notin {None, ""}

StatusCount(c, st) ==
    Cardinality({n \in 1..Len(result[c]) : tasks[result[c][n]].status = st})

\* the output paths of the member tasks that ended completed
CompletedOutputs(c) ==
    {tasks[result[c][n]].output_paths[m] :
        <<n, m>> \in {x \in (1..Len(result[c])) \X (1..MaxFormats) :
                        /\ tasks[result[c][x[1]]].status = "completed"
                        /\ x[2] <= Len(tasks[result[c][x[1]]].output_paths)}}

\* C6.  A batch of N >= 2 files with exactly one failed task and N-1
\* completed tasks, each of which produced output, whose thread ended with
\* no gateway or archive exception: the BatchJob is completed and its
\* archive holds exactly the outputs of the completed tasks.
C6_ArchiveOfSuccessesOnly ==
    \A c \in Calls :
        ( /\ BatchEnded(c)
          /\ cexc[c] = None
          /\ Len(result[c]) >= 2
          /\ StatusCount(c, "failed") = 1
          /\ StatusCount(c, "completed") = Len(result[c]) - 1
          /\ \A n \in 1..Len(result[c]) :
                tasks[result[c][n]].status = "completed" =>
                    tasks[result[c][n]].output_paths # <<>> ) =>
            /\ batches[c].status = "completed"
            /\ ZipName(c) \in DOMAIN archive
            /\ archive[ZipName(c)] = CompletedOutputs(c)

\* C7.  A batch whose member tasks all ended failed is failed, and
\* create_zip_from_task_outputs was never invoked for it.
C7_AllFailedNoArchive ==
    \A c \in Calls :
        ( /\ BatchEnded(c)
          /\ Len(result[c]) >= 1
          /\ StatusCount(c, "failed") = Len(result[c]) ) =>
            /\ batches[c].status = "failed"
            /\ zipcalls[c] = 0
            /\ ZipName(c) \notin DOMAIN archive


\* convert_many has returned its list to the caller
ConvertManyReturned(c) ==
    /\ c \in DOMAIN req
    /\ ~req[c].single
    /\ cpc[c] \notin {"L353", "L379", "L386", "L387", "L388", "rejected"}

\* the task convert_many returned for the file of job j
ReturnedFor(c, j) == {n \in 1..Len(result[c]) : JobOfTask(result[c][n]) = j}

\* The requested formats job j wrote before its loop stopped at index jk[j]
\* (skipped formats left out): what its own codec or transcoder calls made.
\* The format at index jk[j] is among them when its file was written and
\* only the stat() after it failed (the task has a path without a size).
OwnFormats(j) ==
    SelectSeq(SubSeq(Fmts(j), 1, jk[j] - 1), LAMBDA f : f \in Supported(j))
        \o (IF Len(tasks[Tid(j)].output_sizes) < Len(tasks[Tid(j)].output_paths)
            THEN <<Fmts(j)[jk[j]]>>
            ELSE <<>>)

\* C8.  convert_many returns exactly one task per supported source file,
\* each completed or failed; a file's task is failed iff one of that file's
\* own calls (codec, transcoder, callback) raised, and the outputs recorded
\* for a file are the ones its own calls wrote, whatever happened to the
\* other files of the call.
C8_OneTerminalTaskPerFile ==
    \A c \in Calls :
        ConvertManyReturned(c) =>
            /\ Len(result[c]) = Cardinality(ValidJobs(c))
            /\ \A n \in 1..Len(result[c]) : tasks[result[c][n]].status \in Terminal
            /\ \A j \in ValidJobs(c) :
                /\ Cardinality(ReturnedFor(c, j)) = 1
                /\ \A n \in ReturnedFor(c, j) :
                      tasks[result[c][n]].status =
                          IF jexc[j] = None THEN "completed" ELSE "failed"
                /\ tasks[Tid(j)].output_formats = OwnFormats(j)
                /\ \A m \in 1..Len(tasks[Tid(j)].output_paths) :
                      tasks[Tid(j)].output_paths[m].task = Tid(j)

\* convert_many returned two tasks, one failed and one completed with output.
C8_Witness ==
    \E c \in Calls :
        /\ ConvertManyReturned(c)
        /\ Len(result[c]) = 2
        /\ StatusCount(c, "failed") = 1
        /\ \E n \in 1..Len(result[c]) :
              /\ tasks[result[c][n]].status = "completed"
              /\ tasks[result[c][n]].output_paths # <<>>

\* C9.  When create_zip_from_task_outputs raised, the BatchJob ends failed
\* with the exception's message as its error, and from the call on no member
\* task changes (status, error, output lists).
C9_ArchiveFailure ==
    /\ [](\A c \in Calls :
            (BatchEnded(c) /\ cexc[c] = "archive error") =>
                /\ batches[c].status = "failed"
                /\ batches[c].error = "archive error")
    /\ [][\A c \in Calls :
            (c \in DOMAIN req /\ (cpc[c] = "L525" \/ cexc[c] = "archive error")) =>
                \A n \in 1..Len(result[c]) : tasks'[result[c][n]] = tasks[result[c][n]]]_vars

\* A batch whose archive assembly raised has ended, with a completed member.
C9_Witness ==
    \E c \in Calls :
        /\ BatchEnded(c)
        /\ cexc[c] = "archive error"
        /\ StatusCount(c, "completed") >= 1

\* C10.  Once the batch thread has ended, the BatchJob is completed or
\* failed and no source file stored for the batch is left in UPLOAD_DIR,
\* on the success path, the no-output path and every exception path.
C10_SourcesDeleted ==
    \A c \in Calls :
        BatchEnded(c) =>
            /\ batches[c].status \in Terminal
            /\ SourceFiles(c, req[c]) \cap srcfiles = {}

\* C10 as the code has it.  Once the batch thread has ended, the BatchJob is
\* completed or failed and the source files of the batch left in UPLOAD_DIR
\* are exactly those whose unlink raised OSError, on every path.
C10_SourcesDeletedUnlessRefused ==
    \A c \in Calls :
        BatchEnded(c) =>
            /\ batches[c].status \in Terminal
            /\ SourceFiles(c, req[c]) \cap srcfiles = SourceFiles(c, req[c]) \cap unlinkerr

\* A batch of two stored files has ended on an exception path: one file was
\* deleted and the other one's unlink was refused.
C10_Witness ==
    \E c \in Calls :
        /\ BatchEnded(c)
        /\ cexc[c] # None
        /\ Len(req[c].files) = 2
        /\ Cardinality(SourceFiles(c, req[c]) \cap srcfiles) = 1


\* ------------------------------------------------------------ task records
\* C11.  In every state, also one a concurrent get_task observes and the one
\* a failure in the middle of a conversion leaves, the three output lists of
\* a task have the same length.
C11_ParallelLists ==
    \A t \in DOMAIN tasks :
        /\ Len(tasks[t].output_paths) = Len(tasks[t].output_formats)
        /\ Len(tasks[t].output_formats) = Len(tasks[t].output_sizes)

\* The owner of task t has assigned status = FAILED in a handler and is
\* about to assign the error (service.py:211-212, 277-278, 282-283, 330-331,
\* 387-388).
BetweenFailedAndError(t) ==
    IF t[3] = "conv"
    THEN jpc[JobOfTask(t)] \in {"L212", "L278", "L283", "L331"}
    ELSE cpc[t[1]] = "L388"

C15_CompletedIsFinal ==
    \A j \in Jobs :
        (Tid(j) \in DOMAIN tasks /\ tasks[Tid(j)].status = "completed") =>
            /\ tasks[Tid(j)].progress = 100
            /\ tasks[Tid(j)].output_formats =
                  SelectSeq(Fmts(j), LAMBDA f : f \in Supported(j))
            /\ Len(tasks[Tid(j)].output_paths) = Len(tasks[Tid(j)].output_formats)
            /\ Len(tasks[Tid(j)].output_sizes) = Len(tasks[Tid(j)].output_formats)

\* C17.  A source file whose extension is neither an image's nor a video's
\* never has a task: no task of the registry is for it, convert_many's list
\* holds none for it, and a direct convert on it raises the classification
\* error in a step that leaves the registry as it was.
C17_UnsupportedNeverATask ==
    /\ [](\A c \in DOMAIN req : \A i \in 1..Len(req[c].files) :
            req[c].files[i] \notin ALL_EXTENSIONS =>
                /\ Tid(<<c, i>>) \notin DOMAIN tasks
                /\ SynthTid(<<c, i>>) \notin DOMAIN tasks
                /\ \A n \in 1..Len(result[c]) : JobOfTask(result[c][n]) # <<c, i>>
                /\ jpc[<<c, i>>] = "idle"
                /\ req[c].single =>
                      (cpc[c] = "raised" /\ cexc[c] = "Unsupported file type"))
    /\ [][\A c \in Calls :
            ( /\ c \notin DOMAIN req
              /\ c \in DOMAIN req'
              /\ req'[c].single
              /\ req'[c].files[1] \notin ALL_EXTENSIONS ) => tasks' = tasks]_vars

\* convert was called on a .txt path and has raised; convert_many returned
\* for a list with a .txt path.
C17_Witness ==
    \E c \in DOMAIN req :
        /\ \E i \in 1..Len(req[c].files) : req[c].files[i] = ".txt"
        /\ \/ req[c].single /\ cpc[c] = "raised"
           \/ ConvertManyReturned(c) /\ Len(result[c]) = 1


\* ====================================================================
\* Image conversions with size presets: _parse_size_presets and the
\* (size preset x output format) loop of _convert_image, for the files of one
\* convert_many call.  The three appends of one output are one step here
\* (Spec has them apart).
\* ====================================================================

\* A size label is a sequence of characters.
Digits == {"0", "1", "2", "3", "4", "5", "6", "7", "8", "9"}

DigitValue(ch) ==
    CASE ch = "0" -> 0 [] ch = "1" -> 1 [] ch = "2" -> 2 [] ch = "3" -> 3
      [] ch = "4" -> 4 [] ch = "5" -> 5 [] ch = "6" -> 6 [] ch = "7" -> 7
      [] ch = "8" -> 8 [] ch = "9" -> 9

\* str.lower(), on the characters the labels below are written in
LowerChar(ch) ==
    CASE ch = "O" -> "o" [] ch = "X" -> "x" [] OTHER -> ch

Lower(str) == [n \in 1..Len(str) |-> LowerChar(str[n])]

\* str.strip()
Strip(str) ==
    LET inked == {n \in 1..Len(str) : str[n] # " "}
    IN  IF inked = {} THEN <<>>
        ELSE SubSeq(str, CHOOSE n \in inked : \A m \in inked : n <= m,
                         CHOOSE n \in inked : \A m \in inked : n >= m)

\* str.isdigit()
IsDigit(str) == Len(str) > 0 /\ \A n \in 1..Len(str) : str[n] \in Digits

\* int(str) of a digit string (leading zeros count for nothing)
RECURSIVE IntOf(_)
IntOf(str) ==
    IF str = <<>> THEN 0
    ELSE 10 * IntOf(SubSeq(str, 1, Len(str) - 1)) + DigitValue(str[Len(str)])

\* "x" in name
HasX(str) == \E n \in 1..Len(str) : str[n] = "x"

\* name.split("x", 1)
SplitX(str) ==
    LET at == CHOOSE n \in 1..Len(str) :
                 str[n] = "x" /\ \A m \in 1..(n - 1) : str[m] # "x"
    IN  <<SubSeq(str, 1, at - 1), SubSeq(str, at + 1, Len(str))>>

\* an absent dimension (None); a dimension that is given is >= 1
NoDim == 0
\* service.py:74, 80, 86: the largest dimension a literal label may name
MaxDim == 4096

Name_original == <<"o", "r", "i", "g", "i", "n", "a", "l">>
Name_instagram_square ==
    <<"i", "n", "s", "t", "a", "g", "r", "a", "m", "_", "s", "q", "u", "a", "r", "e">>
Name_facebook_post ==
    <<"f", "a", "c", "e", "b", "o", "o", "k", "_", "p", "o", "s", "t">>

\* config.py:35-47: the presets with dimensions ("original" has none); the
\* other eight entries are of the same form.
SIZE_PRESETS ==
    [n \in {Name_instagram_square, Name_facebook_post} |->
        IF n = Name_instagram_square THEN <<1080, 1080>> ELSE <<1200, 630>>]

\* a label that adds nothing to the result
Dropped == <<>>

\* service.py:66-99, for a stripped lower-case name that was not seen before:
\* the (width, height, name) triple appended to result, or Dropped.
Resolve(name) ==
    IF name = Name_original THEN <<NoDim, NoDim, name>>
    ELSE IF HasX(name)
    THEN LET a == Strip(SplitX(name)[1])
             b == Strip(SplitX(name)[2])
         IN  IF IsDigit(a) /\ IsDigit(b)
             THEN IF /\ 1 <= IntOf(a) /\ IntOf(a) <= MaxDim
                     /\ 1 <= IntOf(b) /\ IntOf(b) <= MaxDim
                  THEN <<IntOf(a), IntOf(b), name>>
                  ELSE Dropped
             ELSE IF IsDigit(a) /\ b = <<>>
             THEN IF 1 <= IntOf(a) /\ IntOf(a) <= MaxDim
                  THEN <<IntOf(a), NoDim, name>>
                  ELSE Dropped
             ELSE IF a = <<>> /\ IsDigit(b)
             THEN IF 1 <= IntOf(b) /\ IntOf(b) <= MaxDim
                  THEN <<NoDim, IntOf(b), name>>
                  ELSE Dropped
             ELSE Dropped
    ELSE IF name \in DOMAIN SIZE_PRESETS
    THEN <<SIZE_PRESETS[name][1], SIZE_PRESETS[name][2], name>>
    ELSE Dropped

\* service.py:63-99: the loop over preset_names, with `result` and `seen`
RECURSIVE ParseFrom(_, _, _)
ParseFrom(names, result_, seen) ==
    IF names = <<>> THEN result_
    ELSE LET name == Lower(Strip(Head(names)))
         IN  IF name \in seen \/ Len(Resolve(name)) = 0
             THEN ParseFrom(Tail(names), result_, seen)
             ELSE ParseFrom(Tail(names), Append(result_, Resolve(name)), seen \cup {name})

\* service.py:59-100: _parse_size_presets
parse_size_presets(preset_names) ==
    IF ParseFrom(preset_names, <<>>, {}) = <<>>
    THEN <<<<NoDim, NoDim, Name_original>>>>
    ELSE ParseFrom(preset_names, <<>>, {})

\* service.py:160-177: the suffix of the output name, from the dimensions
Suffix(preset) ==
    IF preset[1] # NoDim /\ preset[2] # NoDim
    THEN ToString(preset[1]) \o "x" \o ToString(preset[2])
    ELSE IF preset[1] # NoDim THEN ToString(preset[1]) \o "x"
    ELSE IF preset[2] # NoDim THEN "x" \o ToString(preset[2])
    ELSE "original"

\* an output name without the task identifier
ImagePath_NoTaskId(stem, task_id, suffix, fmt) ==
    stem \o "_" \o suffix \o "." \o fmt

\* service.py:180: f"{src.stem}_{task.task_id[:8]}_{suffix}.{fmt}".  A task id
\* is a uuid4 string, held as its first 8 characters and the rest.
ImagePath(stem, task_id, suffix, fmt) ==
    stem \o "_" \o task_id.head \o "_" \o suffix \o "." \o fmt

\* The labels requests are made of: the literal original (also padded and in
\* capitals), a named preset, the literal of the same dimensions (also with a
\* leading zero), a literal with a width only, and one out of range.
LabelPool ==
    { Name_original,
      <<" ", "O", "r", "i", "g", "i", "n", "a", "l">>,
      Name_instagram_square,
      <<"1", "0", "8", "0", "x", "1", "0", "8", "0">>,
      <<"0", "1", "0", "8", "0", "x", "1", "0", "8", "0">>,
      <<"1", "0", "8", "0", "X">>,
      <<"5", "0", "0", "0", "x", "5">> }

\* uuid.uuid4() strings: two of them begin with the same 8 characters
UuidPool ==
    { [head |-> "1f0e9a3c", tail |-> "-58d1-4c7e-9b1a-000000000001"],
      [head |-> "1f0e9a3c", tail |-> "-77a2-4f0b-8c3d-000000000002"],
      [head |-> "7b2d4e5f", tail |-> "-58d1-4c7e-9b1a-000000000001"] }

\* The source stems of a call: one file, two files of one stem (a path
\* given twice, or uploads of one name), two files of different stems.
StemLists == {<<"cat">>, <<"cat", "cat">>, <<"cat", "dog">>}

\* convert_many on image files (service.py:337-351): size labels (none, or up
\* to MaxLabels), output formats, and the stem of each source path; the same
\* labels and formats go to every file (service.py:360-377).
SizeRequests ==
    [labels : {<<>>} \cup SeqsUpTo(LabelPool, MaxLabels),
     fmts : FormatLists,
     stems : {f \in StemLists : Len(f) <= MaxFiles}]

SizeInit ==
    /\ MainIdle /\ PoolIdle /\ PollIdle
    /\ ZipIdle /\ QualityIdle /\ ResizeIdle /\ HexIdle
    /\ szreq \in SizeRequests
    /\ sztask = EmptyDict
    /\ szpc = [i \in 1..MaxFiles |-> "idle"]
    /\ szparsed = [i \in 1..MaxFiles |-> <<>>]
    /\ szpos = [i \in 1..MaxFiles |-> <<1, 1>>]
    /\ szstep = [i \in 1..MaxFiles |-> 0]
    /\ szwrites = {}

\* what a step of these conversions leaves alone
SizeFrame ==
    UNCHANGED <<cpc, req, result, cjob, cexc, batches, dbrow, archive, zipcalls,
                srcfiles, outfiles, unlinkerr, tasks, jpc, jk, jstep, jexc,
                poolVars, poll, fnVars>>

\* service.py:123-125: total
SzTotal(i) ==
    IF Len(szreq.fmts) * Len(szparsed[i]) = 0 THEN 1
    ELSE Len(szreq.fmts) * Len(szparsed[i])

\* a loop nest that leaves the format loop after its first pass
SzAdvance_Break(pos) == <<pos[1] + 1, 1>>

\* service.py:159, 177: the next (size preset, format) pair of the loop nest
SzAdvance(pos) ==
    IF pos[2] < Len(szreq.fmts) THEN <<pos[1], pos[2] + 1>> ELSE <<pos[1] + 1, 1>>

\* service.py:309-314, 118-119: _create_task with a fresh uuid4, status
\* converting, the size labels parsed, progress 0; then the image is opened.
SzStart(i) ==
    /\ i \in 1..Len(szreq.stems)
    /\ szpc[i] = "idle"
    /\ Cardinality({k \in 1..MaxFiles : szpc[k] = "L158"}) < MAX_WORKERS
    /\ \E u \in UuidPool \ {sztask[k].task_id : k \in DOMAIN sztask} :
          sztask' = Put(sztask, i,
                        [task_id |-> u, status |-> "converting", progress |-> 0,
                         error |-> None, output_paths |-> <<>>,
                         output_formats |-> <<>>, output_sizes |-> <<>>])
    /\ szparsed' = [szparsed EXCEPT ![i] = parse_size_presets(szreq.labels)]
    /\ szpc' = [szpc EXCEPT ![i] = "L158"]
    /\ UNCHANGED <<szreq, szpos, szstep, szwrites>>
    /\ SizeFrame

\* service.py:177-179: a format that is no image output format: continue
SzSkip(i) ==
    /\ szpc[i] = "L158"
    /\ szpos[i][1] <= Len(szparsed[i])
    /\ szreq.fmts[szpos[i][2]] \notin IMAGE_OUTPUT_FORMATS
    /\ szpos' = [szpos EXCEPT ![i] = SzAdvance(szpos[i])]
    /\ UNCHANGED <<szreq, sztask, szpc, szparsed, szstep, szwrites>>
    /\ SizeFrame

\* service.py:180-204: out_path is derived and the image saved; step,
\* progress and the three lists are updated.  Or the save raises and the
\* handler of line 209 marks the task failed.
SzSave(i) ==
    /\ szpc[i] = "L158"
    /\ szpos[i][1] <= Len(szparsed[i])
    /\ szreq.fmts[szpos[i][2]] \in IMAGE_OUTPUT_FORMATS
    /\ LET fmt == szreq.fmts[szpos[i][2]]
           out_path == ImagePath(szreq.stems[i], sztask[i].task_id,
                                 Suffix(szparsed[i][szpos[i][1]]), fmt)
       IN  \/ /\ szwrites' = szwrites \cup {<<i, out_path>>}
              /\ szstep' = [szstep EXCEPT ![i] = @ + 1]
              /\ sztask' = [sztask EXCEPT
                              ![i].progress = Percent(szstep[i] + 1, SzTotal(i)),
                              ![i].output_paths = Append(@, out_path),
                              ![i].output_formats = Append(@, fmt),
                              ![i].output_sizes = Append(@, 1)]
              /\ szpos' = [szpos EXCEPT ![i] = SzAdvance(szpos[i])]
              /\ szpc' = szpc
           \/ /\ sztask' = [sztask EXCEPT ![i].status = "failed",
                                          ![i].error = "encoder error"]
              /\ szpc' = [szpc EXCEPT ![i] = "returned"]
              /\ UNCHANGED <<szwrites, szstep, szpos>>
    /\ UNCHANGED <<szreq, szparsed>>
    /\ SizeFrame

\* service.py:206-208: the loops are through: completed, progress 100
SzFinish(i) ==
    /\ szpc[i] = "L158"
    /\ szpos[i][1] > Len(szparsed[i])
    /\ sztask' = [sztask EXCEPT ![i].status = "completed", ![i].progress = 100]
    /\ szpc' = [szpc EXCEPT ![i] = "returned"]
    /\ UNCHANGED <<szreq, szparsed, szpos, szstep, szwrites>>
    /\ SizeFrame

SizeNext ==
    \E i \in 1..MaxFiles :
        \/ SzStart(i)
        \/ SzSkip(i)
        \/ SzSave(i)
        \/ SzFinish(i)

SizeSpec == SizeInit /\ [][SizeNext]_vars


\* C12.  Within one task no path occurs twice in output_paths, whatever
\* the requested formats and size labels.
C12_PathsUniqueInTask ==
    \A i \in DOMAIN sztask :
        \A m, n \in 1..Len(sztask[i].output_paths) :
            m # n => sztask[i].output_paths[m] # sztask[i].output_paths[n]

\* C16.  A completed image task has one output path for each pair of a
\* parsed size preset and a requested output format.
C16_OnePerPresetAndFormat ==
    \A i \in DOMAIN sztask :
        sztask[i].status = "completed" =>
            Len(sztask[i].output_paths) = Len(szparsed[i]) * Len(szreq.fmts)

\* the entries of the requested format list that are image output formats
ImageFormatsRequested ==
    SelectSeq(szreq.fmts, LAMBDA f : f \in IMAGE_OUTPUT_FORMATS)

\* C16 as the code has it.  A completed image task has one output path for
\* each pair of a parsed size preset and an entry of the requested format
\* list that is an image output format (other entries are skipped), in the
\* order of the loop nest: presets outside, formats inside.
C16_OnePerPresetAndImageFormat ==
    \A i \in DOMAIN sztask :
        sztask[i].status = "completed" =>
            /\ Len(sztask[i].output_paths) =
                  Len(szparsed[i]) * Len(ImageFormatsRequested)
            /\ \A n \in 1..Len(sztask[i].output_formats) :
                  sztask[i].output_formats[n] =
                      ImageFormatsRequested[((n - 1) % Len(ImageFormatsRequested)) + 1]

\* A task completed for two parsed presets and the formats webp and mp4: two
\* outputs, both webp.
C16_Witness ==
    \E i \in DOMAIN sztask :
        /\ sztask[i].status = "completed"
        /\ Len(szparsed[i]) = 2
        /\ szreq.fmts = <<"webp", "mp4">>
        /\ sztask[i].output_formats = <<"webp", "webp">>

\* C19.  No two distinct tasks write to the same output path.
C19_NoSharedOutputPath ==
    \A w1, w2 \in szwrites :
        w1[1] # w2[1] => w1[2] # w2[2]

\* C19 as the code has it.  Two distinct tasks write to the same output
\* path only if their sources have the same stem and their task ids begin
\* with the same 8 characters; the rest of the task id is not in the path.
C19_SharedPathOnlyOnSameStemAndPrefix ==
    \A w1, w2 \in szwrites :
        (w1[1] # w2[1] /\ w1[2] = w2[2]) =>
            /\ szreq.stems[w1[1]] = szreq.stems[w2[1]]
            /\ sztask[w1[1]].task_id.head = sztask[w2[1]].task_id.head
            /\ sztask[w1[1]].task_id # sztask[w2[1]].task_id

\* Two tasks for sources of one stem, with task ids that differ in their
\* first 8 characters, have both written outputs.
C19_Witness ==
    \E w1, w2 \in szwrites :
        /\ w1[1] # w2[1]
        /\ szreq.stems[w1[1]] = szreq.stems[w2[1]]
        /\ sztask[w1[1]].task_id.head # sztask[w2[1]].task_id.head


\* ---------------------------------------------------------------------------
\* The executor and the upload request.  convert_many hands every valid file
\* to the one ThreadPoolExecutor of the service (service.py:37, 360-377); a
\* batch calls it from a thread of its own (routes.py:626-645).  upload_file
\* calls convert itself, in the thread of the event loop (routes.py:261-263).
\* convert sets the task's status to converting when it starts to run
\* (service.py:309-310) and _convert_image/_convert_video end it.
\* pool[k] is the k-th submitted conversion, loop the event-loop thread.

PoolFrame ==
    UNCHANGED <<callVars, batchVars, fsVars, tasks, jobVars, sizeVars, poll,
                fnVars>>

\* the conversions that are executing: tasks in status converting
Converting ==
    {k \in 1..MaxSubmits : pool[k] = "converting"}
        \cup (IF loop = "converting" THEN {0} ELSE {})

\* service.py:360-377: self._executor.submit(self.convert, path, ...)
PoolSubmit(k) ==
    /\ pool[k] = "unsubmitted"
    /\ pool' = [pool EXCEPT ![k] = "queued"]
    /\ UNCHANGED <<loop, uploads>>
    /\ PoolFrame

\* service.py:37: one of the max_workers threads takes a queued call;
\* service.py:309-310: convert creates the task, status converting
WorkerTake(k) ==
    /\ pool[k] = "queued"
    /\ Cardinality({n \in 1..MaxSubmits : pool[n] = "converting"}) < MAX_WORKERS
    /\ pool' = [pool EXCEPT ![k] = "converting"]
    /\ UNCHANGED <<loop, uploads>>
    /\ PoolFrame

\* service.py:206, 286, 211, 277: the conversion ends, completed or failed
WorkerDone(k) ==
    /\ pool[k] = "converting"
    /\ pool' = [pool EXCEPT ![k] = "over"]
    /\ UNCHANGED <<loop, uploads>>
    /\ PoolFrame

\* routes.py:261-263: upload_file calls svc.convert in the event-loop
\* thread, which is busy until convert returns
UploadFileConvert ==
    /\ loop = "free"
    /\ uploads < MaxUploads
    /\ loop' = "converting"
    /\ uploads' = uploads + 1
    /\ UNCHANGED pool
    /\ PoolFrame

\* routes.py:263-279: convert has returned, the response is built
UploadFileDone ==
    /\ loop = "converting"
    /\ loop' = "free"
    /\ UNCHANGED <<pool, uploads>>
    /\ PoolFrame

PoolNext ==
    \/ \E k \in 1..MaxSubmits :
          \/ PoolSubmit(k)
          \/ WorkerTake(k)
          \/ WorkerDone(k)
    \/ UploadFileConvert
    \/ UploadFileDone

PoolSpec == Init /\ [][PoolNext]_vars

\* C18.  At every moment the number of conversions executing at the same
\* time (tasks in status converting), over all running batches and upload
\* requests, is at most MAX_WORKERS.
C18_AtMostMaxWorkersConverting ==
    Cardinality(Converting) <= MAX_WORKERS


\* ---------------------------------------------------------------------------
\* Polling.  GET /batch/{id} calls get_batch (routes.py:649-661), GET
\* /task/{id} calls get_task (routes.py:751-768), at any moment of the
\* threads that create and update the records.  Batch records live in
\* _batches and in table `batches`; a write to the table returns or raises,
\* as does a read.  A restart of the process empties _batches and the task
\* registry and ends the running threads; the table stays.
\* cpc[b] is the position of the thread of batch b, jpc[j] that of the
\* conversion of file j; poll is the outcome of the latest poll.

PollFrame ==
    UNCHANGED <<req, result, cjob, cexc, archive, zipcalls, fsVars, jk, jstep,
                jexc, sizeVars, poolVars, fnVars>>

\* batch.py:44-48: create_batch, from upload_batch (routes.py:624)
create_batch(b) ==
    /\ cpc[b] = "idle"
    /\ batches' = Put(batches, b, NewBatch)
    /\ \/ /\ dbrow' = Put(dbrow, b, NewRow)
          /\ CGoto(b, "running")
       \/ /\ dbrow' = dbrow
          /\ CGoto(b, "over")
    /\ UNCHANGED <<tasks, jpc, poll>>
    /\ PollFrame

\* batch.py:51-57: set_batch_completed, from _run_batch_and_zip
set_batch_completed(b) ==
    /\ cpc[b] = "running"
    /\ batches' = IF b \in DOMAIN batches
                  THEN [batches EXCEPT ![b].status = "completed",
                                       ![b].zip_filename = "zip"]
                  ELSE batches
    /\ \/ dbrow' = UpdatedRows(dbrow, b, "completed", [zip_filename |-> "zip"])
       \/ dbrow' = dbrow
    /\ CGoto(b, "over")
    /\ UNCHANGED <<tasks, jpc, poll>>
    /\ PollFrame

\* batch.py:60-65: set_batch_failed, from _run_batch_and_zip
set_batch_failed(b) ==
    /\ cpc[b] = "running"
    /\ batches' = IF b \in DOMAIN batches
                  THEN [batches EXCEPT ![b].status = "failed",
                                       ![b].error = "No outputs produced"]
                  ELSE batches
    /\ \/ dbrow' = UpdatedRows(dbrow, b, "failed", [error |-> "No outputs produced"])
       \/ dbrow' = dbrow
    /\ CGoto(b, "over")
    /\ UNCHANGED <<tasks, jpc, poll>>
    /\ PollFrame

\* service.py:49-53, 309: _create_task registers the task, status pending
create_task(j) ==
    /\ jpc[j] = "idle"
    /\ tasks' = Put(tasks, Tid(j), NewTask)
    /\ Goto(j, "L310")
    /\ UNCHANGED <<cpc, batches, dbrow, poll>>
    /\ PollFrame

\* service.py:310: status converting.  service.py:206-207: completed;
\* service.py:211-212: failed with the exception's text.
UpdateTask(j) ==
    /\ \/ /\ jpc[j] = "L310"
          /\ tasks' = [tasks EXCEPT ![Tid(j)].status = "converting"]
          /\ Goto(j, "L311")
       \/ /\ jpc[j] = "L311"
          /\ tasks' = [tasks EXCEPT ![Tid(j)].status = "completed",
                                    ![Tid(j)].progress = 100]
          /\ Goto(j, "returned")
       \/ /\ jpc[j] = "L311"
          /\ tasks' = [tasks EXCEPT ![Tid(j)].status = "failed",
                                    ![Tid(j)].error = "cannot identify image file"]
          /\ Goto(j, "returned")
    /\ UNCHANGED <<cpc, batches, dbrow, poll>>
    /\ PollFrame

\* batch.py:23, service.py:415-422: _batches and the service singleton are
\* objects of the process; a new process starts with both empty and without
\* the threads of the old one.
Restart ==
    /\ batches' = EmptyDict
    /\ tasks' = EmptyDict
    /\ cpc' = [c \in Calls |-> IF cpc[c] = "idle" THEN "idle" ELSE "over"]
    /\ jpc' = [j \in Jobs |-> IF jpc[j] = "idle" THEN "idle" ELSE "returned"]
    /\ UNCHANGED <<dbrow, poll>>
    /\ PollFrame

\* batch.py:26-41: get_batch.  The record of _batches when there is one;
\* else get_batch_from_db (db.py:288-305) is called, which raises when the
\* connection or the query fails, returns None when the table has no row,
\* and otherwise the row, which get_batch puts into _batches and returns.
\* Neither get_batch nor batch_status (routes.py:649-661) has a handler.
get_batch(b) ==
    /\ IF b \in DOMAIN batches
       THEN /\ poll' = [kind |-> "batch", id |-> b, outcome |-> "record",
                        status |-> batches[b].status]
            /\ batches' = batches
       ELSE \/ /\ poll' = [kind |-> "batch", id |-> b, outcome |-> "raised",
                           status |-> None]
               /\ batches' = batches
            \/ /\ b \notin DOMAIN dbrow
               /\ poll' = [kind |-> "batch", id |-> b, outcome |-> "absent",
                           status |-> None]
               /\ batches' = batches
            \/ /\ b \in DOMAIN dbrow
               /\ poll' = [kind |-> "batch", id |-> b, outcome |-> "record",
                           status |-> dbrow[b].status]
               /\ batches' = Put(batches, b, dbrow[b])
    /\ UNCHANGED <<cpc, dbrow, tasks, jpc>>
    /\ PollFrame

\* service.py:55-56: get_task is self._tasks.get(task_id)
get_task(j) ==
    /\ poll' = IF Tid(j) \in DOMAIN tasks
               THEN [kind |-> "task", id |-> j, outcome |-> "record",
                     status |-> tasks[Tid(j)].status]
               ELSE [kind |-> "task", id |-> j, outcome |-> "absent",
                     status |-> None]
    /\ UNCHANGED <<cpc, batches, dbrow, tasks, jpc>>
    /\ PollFrame

\* routes.py:728-748, db.py:432-447: session_delete_data.  delete_session_data
\* deletes the rows of the batches of the session, or raises and deletes none;
\* _batches is not touched.
delete_session_data ==
    /\ \E owned \in SUBSET DOMAIN dbrow :
          \/ dbrow' = [b \in DOMAIN dbrow \ owned |-> dbrow[b]]
          \/ dbrow' = dbrow
    /\ UNCHANGED <<cpc, batches, tasks, jpc, poll>>
    /\ PollFrame

PollNext ==
    \/ delete_session_data
    \/ \E b \in Calls :
          \/ create_batch(b)
          \/ set_batch_completed(b)
          \/ set_batch_failed(b)
          \/ get_batch(b)
    \/ \E j \in Jobs :
          \/ create_task(j)
          \/ UpdateTask(j)
          \/ get_task(j)
    \/ Restart

PollSpec == Init /\ [][PollNext]_vars

\* whether the identifier of the coming poll has a record, and its status
PolledHasRecord ==
    IF poll'.kind = "batch"
    THEN poll'.id \in DOMAIN batches \cup DOMAIN dbrow
    ELSE Tid(poll'.id) \in DOMAIN tasks

PolledStatus ==
    IF poll'.kind = "batch"
    THEN IF poll'.id \in DOMAIN batches THEN batches[poll'.id].status
         ELSE dbrow[poll'.id].status
    ELSE tasks[Tid(poll'.id)].status

\* C20.  A poll never raises; get_task and get_batch return an absent result
\* for an identifier without a record and the current record otherwise (so
\* an absent result is never a record with status failed), while records are
\* being created and updated and whether or not the table can be reached.
C20_PollNeverRaises ==
    [][poll' # poll =>
          /\ poll'.outcome # "raised"
          /\ poll'.outcome = "absent" <=> ~PolledHasRecord
          /\ poll'.outcome = "record" => poll'.status = PolledStatus]_vars


\* ---------------------------------------------------------------------------
\* create_zip_from_task_outputs (batch.py:75-106).  Strings are sequences of
\* one-character strings.

MaxZipTasks == 2
\* batch.py:72: s[:64]
MaxFolder == 64

Letters ==
    {"a", "b", "c", "d", "e", "f", "g", "h", "i", "j", "k", "l", "m", "n", "o",
     "p", "q", "r", "s", "t", "u", "v", "w", "x", "y", "z",
     "A", "B", "C", "D", "E", "F"}

\* batch.py:71: c.isalnum() or c in "._- "
KeptInFolderName(c) == c \in Letters \cup Digits \cup {".", "_", "-", " "}

\* batch.py:69-72: _sanitize_folder_name
sanitize_folder_name(name) ==
    LET kept == Strip(SelectSeq(name, KeptInFolderName))
        s == IF kept = <<>> THEN <<"f", "i", "l", "e">> ELSE kept
    IN  SubSeq(s, 1, IF Len(s) < MaxFolder THEN Len(s) ELSE MaxFolder)

\* batch.py:96: path.suffix.lstrip(".").lower() or "bin".  The suffix starts
\* at the last dot of the name, unless that dot is the first character.
PathExt(name) ==
    LET dots == {n \in 2..Len(name) : name[n] = "."}
        last == CHOOSE n \in dots : \A m \in dots : n >= m
        ext == IF dots = {} THEN <<>> ELSE Lower(SubSeq(name, last + 1, Len(name)))
    IN  IF ext = <<>> THEN <<"b", "i", "n">> ELSE ext

\* an archive name that leaves out the file's name in the folder modes
ArcName_FolderOnly(folder_structure, folder_name, task_id, name) ==
    IF folder_structure = "by_file" THEN folder_name \o <<"/">> \o PathExt(name)
    ELSE IF folder_structure = "by_format" THEN PathExt(name) \o <<"/">> \o PathExt(name)
    ELSE SubSeq(task_id, 1, 8) \o <<"_">> \o name

\* batch.py:97-102: arcname
ArcName(folder_structure, folder_name, task_id, name) ==
    IF folder_structure = "by_file" THEN folder_name \o <<"/">> \o name
    ELSE IF folder_structure = "by_format" THEN PathExt(name) \o <<"/">> \o name
    ELSE SubSeq(task_id, 1, 8) \o <<"_">> \o name

\* service.py:180 with the size preset original: the name of an output file
OutName(stem, task_id, fmt) ==
    stem \o <<"_">> \o SubSeq(task_id, 1, 8) \o <<"_">>
         \o <<"o", "r", "i", "g", "i", "n", "a", "l", ".">> \o fmt

\* service.py:50: uuid4 strings (their first ten characters); two begin with
\* the same 8 characters
ZipIdPool ==
    { <<"1", "f", "0", "e", "9", "a", "3", "c", "-", "5">>,
      <<"1", "f", "0", "e", "9", "a", "3", "c", "-", "7">>,
      <<"7", "b", "2", "d", "4", "e", "6", "f", "-", "5">> }

\* display names: photo.jpg, "..", " / " and a name of 70 characters
DisplayNames ==
    { <<"p", "h", "o", "t", "o", ".", "j", "p", "g">>,
      <<".", ".">>,
      <<" ", "/", " ">>,
      [n \in 1..70 |-> "a"] }

\* a task's output_paths: the file names, and whether path.is_file() holds
\* when the archive is written
OutputLists(task_id) ==
    LET webp == OutName(<<"c", "a", "t">>, task_id, <<"w", "e", "b", "p">>)
        png == OutName(<<"c", "a", "t">>, task_id, <<"p", "n", "g">>)
    IN  { <<[name |-> webp, is_file |-> TRUE]>>,
          <<[name |-> webp, is_file |-> TRUE], [name |-> png, is_file |-> TRUE]>>,
          <<[name |-> webp, is_file |-> FALSE], [name |-> png, is_file |-> TRUE]>> }

\* one entry of task_id_to_paths with its entry of task_id_to_filename
\* (named = FALSE: the task id is no key of task_id_to_filename)
ZipTasks ==
    UNION { [task_id : {u}, named : BOOLEAN, filename : DisplayNames,
             paths : OutputLists(u)] : u \in ZipIdPool }

ZipCalls ==
    [folder_structure : {"flat", "by_file", "by_format"},
     tasks : {ts \in SeqsUpTo(ZipTasks, MaxZipTasks) :
                 /\ \A m, n \in 1..Len(ts) : m # n => ts[m].task_id # ts[n].task_id
                 /\ \A n \in 1..Len(ts) : ~ts[n].named =>
                        ts[n].filename = <<".", ".">>}]

ZipInit ==
    /\ MainIdle /\ SizeIdle /\ PoolIdle /\ PollIdle
    /\ QualityIdle /\ ResizeIdle /\ HexIdle
    /\ zcall \in ZipCalls
    /\ zpos = <<1, 1>>
    /\ zmembers = <<>>

ZipFrame ==
    UNCHANGED <<callVars, batchVars, fsVars, tasks, jobVars, sizeVars, poolVars,
                poll, qcall, quality, rcall, rbox, hcall, hrgb>>

\* batch.py:89-90: the folder name of the task the outer loop is at
FolderName(t) ==
    sanitize_folder_name(IF t.named THEN t.filename ELSE SubSeq(t.task_id, 1, 8))

\* batch.py:88, 91: the next (task, path) pair of the loop nest
ZipAdvance(pos) ==
    IF pos[2] < Len(zcall.tasks[pos[1]].paths) THEN <<pos[1], pos[2] + 1>>
    ELSE <<pos[1] + 1, 1>>

\* batch.py:94-95: a path that is no file is passed over
ZipSkip ==
    /\ zpos[1] <= Len(zcall.tasks)
    /\ ~zcall.tasks[zpos[1]].paths[zpos[2]].is_file
    /\ zpos' = ZipAdvance(zpos)
    /\ UNCHANGED <<zcall, zmembers>>
    /\ ZipFrame

\* batch.py:96-103: zf.write(path, arcname)
ZipWrite ==
    /\ zpos[1] <= Len(zcall.tasks)
    /\ zcall.tasks[zpos[1]].paths[zpos[2]].is_file
    /\ LET t == zcall.tasks[zpos[1]]
           name == t.paths[zpos[2]].name
       IN  zmembers' = Append(zmembers,
               [task |-> zpos[1], name |-> name, folder |-> FolderName(t),
                arcname |-> ArcName(zcall.folder_structure, FolderName(t),
                                    t.task_id, name)])
    /\ zpos' = ZipAdvance(zpos)
    /\ UNCHANGED zcall
    /\ ZipFrame

ZipNext == ZipSkip \/ ZipWrite

ZipSpec == ZipInit /\ [][ZipNext]_vars

\* two members written for two different tasks from two different files
DifferentTaskFiles(m, n) ==
    /\ zmembers[m].task # zmembers[n].task
    /\ zmembers[m].name # zmembers[n].name

ArcFolder(arcname) ==
    LET seps == {n \in 1..Len(arcname) : arcname[n] = "/"}
    IN  IF seps = {} THEN <<>>
        ELSE SubSeq(arcname, 1, (CHOOSE n \in seps : \A k \in seps : n <= k) - 1)

\* C22.  In by_file mode two different tasks with the same display name are
\* placed in two distinct archive folders.
C22_DistinctFolders ==
    zcall.folder_structure = "by_file" =>
        \A m, n \in 1..Len(zmembers) :
            LET tm == zcall.tasks[zmembers[m].task]
                tn == zcall.tasks[zmembers[n].task]
            IN  (/\ zmembers[m].task # zmembers[n].task
                 /\ tm.named /\ tn.named
                 /\ tm.filename = tn.filename)
                    => ArcFolder(zmembers[m].arcname) # ArcFolder(zmembers[n].arcname)

\* the path segments of an archive name
RECURSIVE Segments(_)
Segments(arcname) ==
    LET seps == {n \in 1..Len(arcname) : arcname[n] = "/"}
        first == CHOOSE n \in seps : \A k \in seps : n <= k
    IN  IF seps = {} THEN <<arcname>>
        ELSE <<SubSeq(arcname, 1, first - 1)>>
                 \o Segments(SubSeq(arcname, first + 1, Len(arcname)))

\* C30.  Every archive member path stays under the archive root: no empty,
\* "." or ".." segment and at most one folder level; the sanitized folder
\* name is not empty, has at most 64 characters and no path separator.
C30_MembersUnderRoot ==
    \A m \in 1..Len(zmembers) :
        LET segs == Segments(zmembers[m].arcname)
        IN  /\ Len(segs) <= 2
            /\ \A n \in 1..Len(segs) : segs[n] \notin {<<>>, <<".">>, <<".", ".">>}
            /\ zmembers[m].folder # <<>>
            /\ Len(zmembers[m].folder) <= MaxFolder
            /\ \A n \in 1..Len(zmembers[m].folder) :
                   zmembers[m].folder[n] \notin {"/", "\\"}


\* ---------------------------------------------------------------------------
\* Python float arithmetic (IEEE 754 binary64, round to nearest, ties to
\* even) on positive values, as resize.py:34-39 and service.py:129 use it.
\* A float is [m |-> its 53 significant bits, first bit 1, e |-> the exponent
\* of the first bit]: the value is m[1]*2^e + m[2]*2^(e-1) + ...
\* The operands are integers below 2^11, so every intermediate integer of
\* the bit-by-bit operations stays below 2^31.

MantissaBits == 53
ExpRange == 12

\* the bits of r/d after the binary point, k of them (0 <= r < d)
RECURSIVE DivBits(_, _, _)
DivBits(r, d, k) ==
    IF k = 0 THEN <<>>
    ELSE IF 2 * r >= d THEN <<1>> \o DivBits(2 * r - d, d, k - 1)
    ELSE <<0>> \o DivBits(2 * r, d, k - 1)

\* the remainder the long division is left with after those k bits
RECURSIVE DivRem(_, _, _)
DivRem(r, d, k) ==
    IF k = 0 THEN r
    ELSE IF 2 * r >= d THEN DivRem(2 * r - d, d, k - 1)
    ELSE DivRem(2 * r, d, k - 1)

\* the next float above f
NextUp(f) ==
    LET zeros == {i \in 1..MantissaBits : f.m[i] = 0}
        z == CHOOSE i \in zeros : \A j \in zeros : i >= j
    IN  IF zeros = {}
        THEN [m |-> [i \in 1..MantissaBits |-> IF i = 1 THEN 1 ELSE 0], e |-> f.e + 1]
        ELSE [m |-> [i \in 1..MantissaBits |->
                        IF i < z THEN f.m[i] ELSE IF i = z THEN 1 ELSE 0],
              e |-> f.e]

\* a / b for integers a, b >= 1
FloatDiv(a, b) ==
    LET e == CHOOSE x \in (0 - ExpRange)..ExpRange :
                 IF x >= 0 THEN b * 2^x <= a /\ a < b * 2^(x + 1)
                 ELSE b <= a * 2^(0 - x) /\ a * 2^(0 - x) < 2 * b
        n0 == IF e >= 0 THEN a ELSE a * 2^(0 - e)
        d0 == IF e >= 0 THEN b * 2^e ELSE b
        bits == <<1>> \o DivBits(n0 - d0, d0, MantissaBits - 1)
        rem == DivRem(n0 - d0, d0, MantissaBits - 1)
        down == [m |-> bits, e |-> e]
    IN  IF 2 * rem > d0 \/ (2 * rem = d0 /\ bits[MantissaBits] = 1)
        THEN NextUp(down) ELSE down

\* the binary digits of the integer c, none for 0
RECURSIVE IntBits(_)
IntBits(c) == IF c = 0 THEN <<>> ELSE IntBits(c \div 2) \o <<c % 2>>

\* the integer with the binary digits bits
RECURSIVE BitsInt(_)
BitsInt(bits) ==
    IF bits = <<>> THEN 0
    ELSE 2 * BitsInt(SubSeq(bits, 1, Len(bits) - 1)) + bits[Len(bits)]

\* the 15 binary digits of x < 2^15
Limb(x) == [i \in 1..15 |-> (x \div 2^(15 - i)) % 2]

\* the binary digits of n times the integer with the 53 digits m: the
\* multiplication by hand on the digit groups 1..8, 9..23, 24..38, 39..53
MulBits(n, m) ==
    LET p1 == n * BitsInt(SubSeq(m, 39, 53))
        p2 == n * BitsInt(SubSeq(m, 24, 38)) + p1 \div 2^15
        p3 == n * BitsInt(SubSeq(m, 9, 23)) + p2 \div 2^15
        p4 == n * BitsInt(SubSeq(m, 1, 8)) + p3 \div 2^15
    IN  IntBits(p4) \o Limb(p3 % 2^15) \o Limb(p2 % 2^15) \o Limb(p1 % 2^15)

\* n * f for an integer n >= 1: the exact product, rounded to 53 bits
FloatMul(n, f) ==
    LET exact == MulBits(n, f.m)
        kept == SubSeq(exact, 1, MantissaBits)
        rest == SubSeq(exact, MantissaBits + 1, Len(exact))
        down == [m |-> kept, e |-> f.e + Len(rest)]
    IN  IF /\ rest # <<>>
           /\ rest[1] = 1
           /\ \/ \E i \in 2..Len(rest) : rest[i] = 1
              \/ kept[MantissaBits] = 1
        THEN NextUp(down) ELSE down

\* int(f): the integer part
FloatInt(f) == IF f.e < 0 THEN 0 ELSE BitsInt(SubSeq(f.m, 1, f.e + 1))

\* f < g
FloatLess(f, g) ==
    \/ f.e < g.e
    \/ /\ f.e = g.e
       /\ \E i \in 1..MantissaBits :
             /\ f.m[i] < g.m[i]
             /\ \A j \in 1..(i - 1) : f.m[j] = g.m[j]

FloatMax(f, g) == IF FloatLess(f, g) THEN g ELSE f
FloatMin(f, g) == IF FloatLess(g, f) THEN g ELSE f


\* ---------------------------------------------------------------------------
\* resize_to_fit (resize.py:12-71).

MaxSource == 11
MaxTarget == 15
\* image sizes: small ones, and a 49 and a 535 pixel side
SourceSizes == 1..MaxSource \cup {49, 535}
\* target sizes: small ones, and the 1080 of the instagram presets
TargetSizes == 1..MaxTarget \cup {1080}

ResizeCalls ==
    [w : SourceSizes, h : SourceSizes, tw : TargetSizes, th : TargetSizes,
     fill_mode : {"crop", "color", "blur", "stretch"}]

ResizeInit ==
    /\ MainIdle /\ SizeIdle /\ PoolIdle /\ PollIdle
    /\ ZipIdle /\ QualityIdle /\ HexIdle
    /\ rcall \in ResizeCalls
    /\ rbox = [kind |-> "none"]

\* resize.py:34: scale_cover = max(tw / w, th / h)
scale_cover(w, h, tw, th) == FloatMax(FloatDiv(tw, w), FloatDiv(th, h))

\* resize.py:35: scale_fit = min(tw / w, th / h)
scale_fit(w, h, tw, th) == FloatMin(FloatDiv(tw, w), FloatDiv(th, h))

\* resize.py:38-43, 59-68: scale to cover, then the centred crop box.  In
\* blur mode an empty size gives a plain image (61-63); in crop mode
\* Image.resize is called with it and raises.
Cover(c, guarded) ==
    LET scale == scale_cover(c.w, c.h, c.tw, c.th)
        new_w == FloatInt(FloatMul(c.w, scale))
        new_h == FloatInt(FloatMul(c.h, scale))
    IN  IF new_w <= 0 \/ new_h <= 0
        THEN [kind |-> IF guarded THEN "plain" ELSE "raised",
              new_w |-> new_w, new_h |-> new_h, left |-> 0, top |-> 0]
        ELSE [kind |-> "crop", new_w |-> new_w, new_h |-> new_h,
              left |-> (new_w - c.tw) \div 2, top |-> (new_h - c.th) \div 2]

\* resize.py:45-56: scale to fit, pasted centred on the fill colour
Fit(c) ==
    LET scale == scale_fit(c.w, c.h, c.tw, c.th)
        new_w == FloatInt(FloatMul(c.w, scale))
        new_h == FloatInt(FloatMul(c.h, scale))
    IN  IF new_w <= 0 \/ new_h <= 0
        THEN [kind |-> "plain", new_w |-> new_w, new_h |-> new_h,
              left |-> 0, top |-> 0]
        ELSE [kind |-> "paste", new_w |-> new_w, new_h |-> new_h,
              left |-> (c.tw - new_w) \div 2, top |-> (c.th - new_h) \div 2]

\* resize.py:27-71: resize_to_fit; an unknown fill_mode is handled as crop
resize_to_fit ==
    /\ rbox.kind = "none"
    /\ rbox' = IF rcall.w = rcall.tw /\ rcall.h = rcall.th
               THEN [kind |-> "copy", new_w |-> rcall.w, new_h |-> rcall.h,
                     left |-> 0, top |-> 0]
               ELSE IF rcall.fill_mode = "color" THEN Fit(rcall)
               ELSE Cover(rcall, rcall.fill_mode = "blur")
    /\ UNCHANGED <<callVars, batchVars, fsVars, tasks, jobVars, sizeVars,
                   poolVars, poll, zcall, zpos, zmembers, qcall, quality,
                   rcall, hcall, hrgb>>

ResizeSpec == ResizeInit /\ [][resize_to_fit]_vars

\* C24.  In crop mode, for every source size and every target size, the
\* scaled image is at least as large as the target in both axes and the
\* crop window lies inside the scaled image.
C24_CropCoversTarget ==
    (rcall # <<>> /\ rbox.kind # "none"
        /\ rcall.fill_mode = "crop" /\ rbox.kind # "copy") =>
        /\ rbox.kind = "crop"
        /\ rbox.new_w >= rcall.tw
        /\ rbox.new_h >= rcall.th
        /\ rbox.left >= 0
        /\ rbox.top >= 0
        /\ rbox.left + rcall.tw <= rbox.new_w
        /\ rbox.top + rcall.th <= rbox.new_h


\* ---------------------------------------------------------------------------
\* The encoder quality of an image conversion (service.py:126-129), for two
\* requests that differ in the size-reduction percent only.

\* config.py:30, 28
DEFAULT_QUALITY == 90
WEB_OPTIMIZED_QUALITY == 85
\* routes.py:558: size_reduction_percent: int = Query(0, ge=0, le=80)
MaxPercent == 80
\* service.py:111: size_reduction_percent = None
NoPercent == 0 - 1

\* routes.py:636 (also 379, 450): size_reduction_percent or None
PercentOrNone(percent) == IF percent = 0 THEN NoPercent ELSE percent

\* service.py:129: int(size_reduction_percent * 0.9), a float product
NineTenths(percent) ==
    IF percent = 0 THEN 0 ELSE FloatInt(FloatMul(percent, FloatDiv(9, 10)))

\* service.py:126-129: quality
Quality(web_optimized, size_reduction_percent) ==
    IF /\ size_reduction_percent # NoPercent
       /\ 0 <= size_reduction_percent
       /\ size_reduction_percent <= 80
    THEN LET q == 95 - NineTenths(size_reduction_percent)
             capped == IF q < 95 THEN q ELSE 95
         IN  IF capped > 25 THEN capped ELSE 25
    ELSE IF web_optimized THEN WEB_OPTIMIZED_QUALITY ELSE DEFAULT_QUALITY

\* two requests, the first with the smaller percent
QualityCalls ==
    {c \in [web_optimized : BOOLEAN, percent : [1..2 -> 0..MaxPercent]] :
        c.percent[1] <= c.percent[2]}

QualityInit ==
    /\ MainIdle /\ SizeIdle /\ PoolIdle /\ PollIdle
    /\ ZipIdle /\ ResizeIdle /\ HexIdle
    /\ qcall \in QualityCalls
    /\ quality = EmptyDict

\* routes.py:626-643, service.py:126-129: the request's percent is handed
\* on as `percent or None` and _convert_image derives the quality
ConvertWithPercent(i) ==
    /\ i \notin DOMAIN quality
    /\ quality' = Put(quality, i,
                      Quality(qcall.web_optimized, PercentOrNone(qcall.percent[i])))
    /\ UNCHANGED <<callVars, batchVars, fsVars, tasks, jobVars, sizeVars,
                   poolVars, poll, zcall, zpos, zmembers, qcall, rcall, rbox,
                   hcall, hrgb>>

QualityNext == \E i \in 1..2 : ConvertWithPercent(i)

QualitySpec == QualityInit /\ [][QualityNext]_vars

\* C23.  Of two conversions requested with percents p <= q in 0..80 and
\* otherwise equal options, the one with p is encoded with a quality at
\* least that of the one with q; a quality derived from a percent is in
\* 25..95.
C23_QualityMonotone ==
    /\ \A i \in DOMAIN quality : quality[i] \in 25..95
    /\ (1 \in DOMAIN quality /\ 2 \in DOMAIN quality) => quality[1] >= quality[2]


\* ---------------------------------------------------------------------------
\* hex_to_rgb (resize.py:99-107).

MaxHexLen == 6

HexDigits == <<"0", "1", "2", "3", "4", "5", "6", "7", "8", "9",
               "a", "b", "c", "d", "e", "f">>

\* the value of a hexadecimal digit, 16 for any other character
HexValue(ch) ==
    LET low == CASE ch = "A" -> "a" [] ch = "B" -> "b" [] ch = "C" -> "c"
                 [] ch = "D" -> "d" [] ch = "E" -> "e" [] ch = "F" -> "f"
                 [] OTHER -> ch
        at == {n \in 1..16 : HexDigits[n] = low}
    IN  IF at = {} THEN 16 ELSE (CHOOSE n \in at : TRUE) - 1

\* str.lstrip("#")
LStripHash(str) ==
    LET other == {n \in 1..Len(str) : str[n] # "#"}
    IN  IF other = {} THEN <<>>
        ELSE SubSeq(str, CHOOSE n \in other : \A m \in other : n <= m, Len(str))

\* int(piece, 16) for a string of two characters: blanks around the number
\* are dropped, a sign may come first, the rest must be hexadecimal digits;
\* anything else is a ValueError.
IntBase16(piece) ==
    LET t == Strip(piece)
        signed == t # <<>> /\ t[1] \in {"+", "-"}
        digits == IF signed THEN Tail(t) ELSE t
        valid == digits # <<>> /\ \A n \in 1..Len(digits) : HexValue(digits[n]) < 16
        abs == IF Len(digits) = 1 THEN HexValue(digits[1])
               ELSE 16 * HexValue(digits[1]) + HexValue(digits[2])
    IN  IF ~valid THEN [ok |-> FALSE, value |-> 0]
        ELSE [ok |-> TRUE, value |-> IF signed /\ t[1] = "-" THEN 0 - abs ELSE abs]

DefaultGray == <<128, 128, 128>>

\* resize.py:99-107: hex_to_rgb
hex_to_rgb(hex_color) ==
    LET hex == LStripHash(Strip(hex_color))
        r == IntBase16(SubSeq(hex, 1, 2))
        g == IntBase16(SubSeq(hex, 3, 4))
        b == IntBase16(SubSeq(hex, 5, 6))
    IN  IF Len(hex) = 6 /\ r.ok /\ g.ok /\ b.ok
        THEN <<r.value, g.value, b.value>>
        ELSE DefaultGray

\* the arguments: nothing, "#" or "##" and then up to six characters, among
\* them digits in both cases, a letter that is no digit, a sign and a blank
HexStrings ==
    { prefix \o body :
        prefix \in {<<>>, <<"#">>, <<"#", "#">>},
        body \in UNION {[1..n -> {"8", "F", "c", "g", "-", " "}] : n \in 0..MaxHexLen} }

HexInit ==
    /\ MainIdle /\ SizeIdle /\ PoolIdle /\ PollIdle
    /\ ZipIdle /\ QualityIdle /\ ResizeIdle
    /\ hcall \in HexStrings
    /\ hrgb = [kind |-> "none"]

\* service.py:133: rgb_fill = hex_to_rgb(fill_color)
CallHexToRgb ==
    /\ hrgb.kind = "none"
    /\ hrgb' = [kind |-> "returned", rgb |-> hex_to_rgb(hcall)]
    /\ UNCHANGED <<callVars, batchVars, fsVars, tasks, jobVars, sizeVars,
                   poolVars, poll, zcall, zpos, zmembers, qcall, quality,
                   rcall, rbox, hcall>>

HexSpec == HexInit /\ [][CallHexToRgb]_vars

\* #RRGGBB with six hexadecimal digits
IsHexColor(str) ==
    /\ Len(str) = 7
    /\ str[1] = "#"
    /\ \A n \in 2..7 : HexValue(str[n]) < 16

\* C25.  For every input string hex_to_rgb returns without raising; it
\* returns the default gray (128,128,128) for every input that is not of the
\* form #RRGGBB; every returned channel is in 0..255.
C25_MalformedGivesGray ==
    hrgb.kind # "none" =>
        /\ hrgb.kind = "returned"
        /\ ~IsHexColor(hcall) => hrgb.rgb = DefaultGray
        /\ \A n \in 1..3 : hrgb.rgb[n] \in 0..255


\* ---------------------------------------------------------------------------
\* Further claims on the batch run (specification Spec).

\* C26.  When the transcoder binary is missing during a video conversion,
\* the task convert returns is failed and its error is the message
\* "ffmpeg not installed".
C26_MissingTranscoderMessage ==
    \A j \in Jobs :
        (jpc[j] = "returned" /\ jexc[j] = "No such file or directory: ffmpeg") =>
            /\ tasks[Tid(j)].status = "failed"
            /\ tasks[Tid(j)].error = "ffmpeg not installed"

\* the source files of call c that are no longer in UPLOAD_DIR
Deleted(c) == SourceFiles(c, req[c]) \ srcfiles

\* C27.  No source file is deleted while a conversion that reads it is
\* queued, pending or converting: when a source file of a call is gone,
\* every submitted file of the call has a terminal task in the list
\* convert_many (or convert) returned.
C27_SourcesOutliveConversions ==
    /\ \A j \in Jobs : jpc[j] \notin {"idle", "returned", "raised"} => j \in srcfiles
    /\ \A t \in DOMAIN tasks :
          tasks[t].status \in {"pending", "converting"} => JobOfTask(t) \in srcfiles
    /\ \A c \in DOMAIN req :
          Deleted(c) # {} =>
              \A j \in ValidJobs(c) :
                  /\ jpc[j] \in {"returned", "raised"}
                  /\ \E n \in 1..Len(result[c]) :
                        /\ JobOfTask(result[c][n]) = j
                        /\ tasks[result[c][n]].status \in Terminal

\* The source files of two submitted files are gone, after a batch and after
\* a direct call.
C27_Witness ==
    \E c \in DOMAIN req :
        /\ Cardinality(ValidJobs(c)) = 2
        /\ Deleted(c) = SourceFiles(c, req[c])
        /\ StatusCount(c, "failed") = 1

\* C29.  While an image task is converting, in every state a concurrent
\* get_task can observe, progress is at most 100 * len(output_paths) / total:
\* progress never counts an output that is not yet in the task's output lists.
C29_ProgressWithinRecordedOutputs ==
    \A t \in DOMAIN tasks :
        (/\ get_media_type(Ext(JobOfTask(t))) = "image"
         /\ tasks[t].status = "converting") =>
            tasks[t].progress <= Percent(Len(tasks[t].output_paths), Total(JobOfTask(t)))

\* ---------------------------------------------------------------------------
\* The registry of batches and the table of batches (specification PollSpec).

BatchFields == {"status", "error", "zip_filename", "task_ids"}

\* C28.  Whenever no batch operation is in progress, the BatchJob of
\* _batches and the row of the table agree on status, error, zip_filename
\* and task_ids, after any sequence of create_batch, set_batch_completed,
\* set_batch_failed, get_batch and session-data deletion, including those in
\* which a persistence call raises.
C28_MemoryAgreesWithRow ==
    \A b \in DOMAIN batches \cap DOMAIN dbrow :
        \A f \in BatchFields : batches[b][f] = dbrow[b][f]

====
